---------------------------- MODULE Spec2Model ----------------------------
(***************************************************************************)
(* A model of nexus-ia's natural-language interpreter (src/nexus_local.py): *)
(* procesar_logica_negocio turns one line of free text into a task record   *)
(* {nombre, fecha, tipo, prioridad, materia}, asking the user to confirm    *)
(* when the date it resolved lies in the past; and of the Notion automation  *)
(* (src/notion_automation.py), which files entries in a Notion database.    *)
(*                                                                         *)
(* Text is modelled as it is in the program: a sequence of characters.  A   *)
(* character is a one-character string, a token a sequence of characters.   *)
(* Dates are records [year, month, day]; the arithmetic on them is that of  *)
(* Python's datetime (proleptic Gregorian ordinals).                        *)
(***************************************************************************)
EXTENDS Integers, Sequences, FiniteSets, TLC

VARIABLES
    texto,          \* the input text of the call
    ahora,          \* datetime.now() as captured by the call (its date)
    pc,             \* where the call stands: "inicio", "confirmando" (in the loop of
                    \* _pedir_confirmacion_fecha, at input()) or "retornado"; for a
                    \* part of it called on its own, "prioridad", "explicita" or
                    \* "dia_semana" before and the same with "_resuelta"/"_resuelto" after
    tokens,         \* tokenizar(texto)
    tokens_clean,   \* remover_stopwords(tokens)
    materia_final,
    tipo,
    prioridad,
    fecha_dt,       \* the date resolved so far (NoFecha before the call)
    estrategia,     \* which branch of the code produced fecha_dt
    candidatos,     \* [este, proximo]: the two dates the confirmation prompt offers
    resp,           \* the last answer read by the confirmation loop, stripped and lowered
    resultado,      \* the record returned (NoResultado until the call returns)
    arg_nombre_dia, \* the arguments of a direct call of _obtener_proximo_dia_semana
    arg_proxima_semana,
    texto_limpio,   \* normalizar_texto(texto), as tokenizar names it
    arg_entrada,    \* the arguments of a direct call of buscar_concepto_fuzzy
    arg_opciones,
    arg_umbral,
    encontrado,     \* what buscar_concepto_fuzzy returned
    arg_palabra,    \* the arguments of a direct call of tiene_negacion (with tokens)
    arg_ventana,
    negada,         \* what tiene_negacion returned
    database_id,    \* NotionAutomation.database_id
    llamada,        \* the last method of NotionAutomation called, with its arguments
    call_count,     \* the Notion client: how many times each of its methods was called
    call_args,      \* the Notion client: the keyword arguments of the last request
    paginas,        \* the Notion database: the pages stored in it
    retorno,        \* how the last method of NotionAutomation ended
    data,           \* api_agendar: what request.get_json gave for the body of the POST
    stdin,          \* the standard input of the server's process, which input() reads
    llamados,       \* api_agendar: the functions of nexus_local it has called
    envios,         \* the payloads that enviar_a_notion has posted to Notion
    respuesta_notion, \* what requests.post gave to enviar_a_notion
    respuestas      \* the responses that api_agendar has returned for the POST

(* The interpreter's own state, the arguments and results of its functions    *)
(* called on their own, the Notion automation with its client, and the web     *)
(* server's handler of POST /agendar (src/app.py).                             *)
vars_interprete == <<texto, ahora, pc, tokens, tokens_clean, materia_final, tipo, prioridad,
                     fecha_dt, estrategia, candidatos, resp, resultado>>
vars_funciones == <<arg_nombre_dia, arg_proxima_semana, texto_limpio, arg_entrada, arg_opciones,
                    arg_umbral, encontrado, arg_palabra, arg_ventana, negada>>
vars_notion == <<database_id, llamada, call_count, call_args, paginas, retorno>>
vars_servidor == <<data, stdin, llamados, envios, respuesta_notion, respuestas>>

vars == <<vars_interprete, vars_funciones, vars_notion, vars_servidor>>

(***************************************************************************)
(* Characters.                                                              *)
(***************************************************************************)
Minusculas == <<"a","b","c","d","e","f","g","h","i","j","k","l","m","n","o","p","q",
                "r","s","t","u","v","w","x","y","z","á","é","í","ó","ú","ñ">>
Mayusculas == <<"A","B","C","D","E","F","G","H","I","J","K","L","M","N","O","P","Q",
                "R","S","T","U","V","W","X","Y","Z","Á","É","Í","Ó","Ú","Ñ">>
Digitos == <<"0","1","2","3","4","5","6","7","8","9">>

Rango(s) == { s[i] : i \in DOMAIN s }

(* string.punctuation, but for the grave accent, which a TLA+ string cannot  *)
(* hold; no text of the model contains one.                                  *)
punctuation == { "!", "\"", "#", "$", "%", "&", "'", "(", ")", "*", "+", ",", "-", ".",
                 "/", ":", ";", "<", "=", ">", "?", "@", "[", "\\", "]", "^", "_",
                 "{", "|", "}", "~" }

(* What \s, str.strip() and str.split() take for whitespace. *)
EsEspacio(c) == c \in { " ", "\t", "\n" }
(* \d *)
EsDigito(c) == c \in Rango(Digitos)
(* \w: letters, digits and the underscore. *)
EsPalabra(c) == c \in Rango(Minusculas) \cup Rango(Mayusculas) \cup Rango(Digitos) \cup {"_"}

Indice(s, c) == CHOOSE i \in DOMAIN s : s[i] = c

(* str.lower() and str.upper() on one character. *)
lower_c(c) == IF c \in Rango(Mayusculas) THEN Minusculas[Indice(Mayusculas, c)] ELSE c
upper_c(c) == IF c \in Rango(Minusculas) THEN Mayusculas[Indice(Minusculas, c)] ELSE c

(* str.lower() *)
lower(s) == [i \in DOMAIN s |-> lower_c(s[i])]

(* str.capitalize(): the first character upper-cased, all the others lower-cased. *)
capitalize(s) == [i \in DOMAIN s |-> IF i = 1 THEN upper_c(s[i]) ELSE lower_c(s[i])]

(* int() of a string of decimal digits. *)
RECURSIVE int(_)
int(s) == IF s = <<>> THEN 0
          ELSE 10 * int(SubSeq(s, 1, Len(s) - 1)) + (Indice(Digitos, s[Len(s)]) - 1)

(* x in s, for strings: s holds x as a substring. *)
Contiene(s, x) == \E i \in 1..(Len(s) - Len(x) + 1) : SubSeq(s, i, i + Len(x) - 1) = x

(* The text at position i of s starts with x. *)
EmpiezaEn(s, i, x) == i + Len(x) - 1 <= Len(s) /\ SubSeq(s, i, i + Len(x) - 1) = x

(* For each position of s, whether its character is whitespace, is none, is a *)
(* digit, is a word character.                                                *)
son_espacios(s) == [k \in DOMAIN s |-> EsEspacio(s[k])]
no_son_espacios(s) == [k \in DOMAIN s |-> ~EsEspacio(s[k])]
son_digitos(s) == [k \in DOMAIN s |-> EsDigito(s[k])]
son_de_palabra(s) == [k \in DOMAIN s |-> EsPalabra(s[k])]

(* The end of the longest run of marked positions that starts at i (i - 1 when *)
(* position i is not marked): what a greedy repetition consumes.               *)
FinDeTramo(en, i) ==
    IF i > Len(en) THEN Len(en)
    ELSE (CHOOSE j \in i..(Len(en) + 1) :
            /\ j = Len(en) + 1 \/ ~en[j]
            /\ \A k \in i..(j - 1) : en[k]) - 1
(* STOPWORDS_ES: the stopword set. *)
STOPWORDS_ES ==
  {
    <<"e","l">>, <<"l","a">>, <<"d","e">>, <<"q","u","e">>, <<"y">>, <<"a">>,
    <<"e","n">>, <<"u","n">>, <<"s","e","r">>, <<"s","e">>, <<"n","o">>,
    <<"h","a","b","e","r">>, <<"p","o","r">>, <<"c","o","n">>, <<"s","u">>,
    <<"p","a","r","a">>, <<"e","s">>, <<"o">>, <<"c","o","m","o">>,
    <<"e","s","t","a","r">>, <<"t","e","n","e","r">>, <<"l","e">>, <<"l","o">>,
    <<"t","o","d","o">>, <<"p","e","r","o">>, <<"m","á","s">>, <<"h","a","c","e","r">>,
    <<"p","o","d","e","r">>, <<"d","e","c","i","r">>, <<"e","s","t","e">>, <<"i","r">>,
    <<"o","t","r","o">>, <<"e","s","e">>, <<"e","s","t","a">>, <<"s","o","n">>,
    <<"l","o","s">>, <<"l","a","s">>, <<"d","e","l">>, <<"a","l">>,
    <<"d","e","s","d","e">>, <<"h","a","s","t","a">>, <<"m","e">>, <<"t","e">>,
    <<"n","o","s">> }

(* DICCIONARIO_MATERIAS_MEJORADO, in declared order: nombre and variantes of each entry. *)
DICCIONARIO_MATERIAS_MEJORADO == <<
  [nombre |-> "Aplicaciones Web y Móviles",
   variantes |-> <<<<"w","e","b">>,
                  <<"m","ó","v","i","l">>,
                  <<"m","o","b","i","l","e">>,
                  <<"a","p","p">>,
                  <<"w","e","b","a","p","p">>,
                  <<"a","p","l","i","c","a","c","i","ó","n">>,
                  <<"f","r","o","n","t","e","n","d">>,
                  <<"b","a","c","k","e","n","d">>,
                  <<"r","e","a","c","t">>,
                  <<"a","n","g","u","l","a","r">>>>],
  [nombre |-> "Inteligencia de negocios",
   variantes |-> <<<<"b","i">>,
                  <<"n","e","g","o","c","i","o","s">>,
                  <<"i","n","t","e","l","i","g","e","n","c","i","a">>,
                  <<"a","n","a","l","y","t","i","c","s">>,
                  <<"d","a","t","o","s">>,
                  <<"d","a","t","a">>,
                  <<"t","a","b","l","e","a","u">>,
                  <<"p","o","w","e","r","b","i">>,
                  <<"b","u","s","i","n","e","s","s">>>>],
  [nombre |-> "Realidad Nacional",
   variantes |-> <<<<"r","e","a","l","i","d","a","d">>,
                  <<"n","a","c","i","o","n","a","l">>,
                  <<"s","o","c","i","e","d","a","d">>,
                  <<"c","o","n","t","e","x","t","o">>>>],
  [nombre |-> "Aplicaciones distribuidas",
   variantes |-> <<<<"d","i","s","t","r","i","b","u","i","d","a","s">>,
                  <<"d","i","s","t","r","i","b","u","i","d","o">>,
                  <<"m","i","c","r","o","s","e","r","v","i","c","i","o","s">>,
                  <<"c","l","o","u","d">>,
                  <<"k","u","b","e","r","n","e","t","e","s">>,
                  <<"d","o","c","k","e","r">>>>],
  [nombre |-> "Gestión de prueba e implantación",
   variantes |-> <<<<"g","e","s","t","i","ó","n">>,
                  <<"g","e","s","t","i","o","n">>,
                  <<"p","r","u","e","b","a">>,
                  <<"q","a">>,
                  <<"t","e","s","t","i","n","g">>,
                  <<"i","m","p","l","a","n","t","a","c","i","ó","n">>,
                  <<"d","e","p","l","o","y","m","e","n","t">>>>],
  [nombre |-> "Inglés B1+",
   variantes |-> <<<<"i","n","g","l","é","s">>,
                  <<"i","n","g","l","e","s">>,
                  <<"e","n","g","l","i","s","h">>,
                  <<"b","1">>>>]
>>

(* tipos_disponibles: the canonical type names offered to the fuzzy matcher. *)
tipos_disponibles == <<<<"e","x","a","m","e","n">>, <<"p","r","o","y","e","c","t","o">>, <<"d","e","b","e","r">>, <<"e","n","t","r","e","g","a">>, <<"t","a","l","l","e","r">>>>

(* tipos_palabras_clave, in declared order; palabras holds each keyword as the list
   literal has it ("trabajo final" is one keyword with a space in it). *)
tipos_palabras_clave == <<
  [tipo_nombre |-> <<"e","x","a","m","e","n">>,
   palabras |-> <<<<"e","x","a","m","e","n">>,
                 <<"p","r","u","e","b","a">>,
                 <<"t","e","s","t">>,
                 <<"p","a","r","c","i","a","l">>,
                 <<"f","i","n","a","l">>,
                 <<"e","v","a","l","u","a","c","i","ó","n">>,
                 <<"q","u","i","z">>,
                 <<"e","x","a","m">>>>],
  [tipo_nombre |-> <<"p","r","o","y","e","c","t","o">>,
   palabras |-> <<<<"p","r","o","y","e","c","t","o">>,
                 <<"t","r","a","b","a","j","o">>,
                 <<"i","n","v","e","s","t","i","g","a","c","i","ó","n">>,
                 <<"p","a","p","e","r">>,
                 <<"t","r","a","b","a","j","o"," ","f","i","n","a","l">>>>],
  [tipo_nombre |-> <<"e","n","t","r","e","g","a">>,
   palabras |-> <<<<"e","n","t","r","e","g","a">>,
                 <<"f","o","r","o">>,
                 <<"s","u","b","m","i","s","s","i","o","n">>,
                 <<"e","n","t","r","e","g","a","r">>>>],
  [tipo_nombre |-> <<"t","a","l","l","e","r">>,
   palabras |-> <<<<"t","a","l","l","e","r">>,
                 <<"w","o","r","k","s","h","o","p">>,
                 <<"p","r","á","c","t","i","c","a">>>>]
>>

palabras_urgentes == <<<<"u","r","g","e","n","t","e">>,
                       <<"i","m","p","o","r","t","a","n","t","e">>,
                       <<"p","r","i","o","r","i","d","a","d">>,
                       <<"c","r","í","t","i","c","o">>,
                       <<"c","r","i","t","i","c","o">>,
                       <<"u","r","g","e">>,
                       <<"a","s","a","p">>>>

palabras_bajas == <<<<"s","u","a","v","e">>,
                    <<"b","a","j","o">>,
                    <<"f","á","c","i","l">>,
                    <<"f","a","c","i","l">>,
                    <<"s","i","m","p","l","e">>,
                    <<"f","á","c","i","l","m","e","n","t","e">>,
                    <<"f","a","c","i","l","m","e","n","t","e">>>>

negaciones == <<<<"n","o">>, <<"n","u","n","c","a">>, <<"j","a","m","á","s">>, <<"n","a","d","a">>, <<"n","i">>>>

(* meses_es: month name -> month number, as the sequence of names in month order. *)
meses_es == <<<<"e","n","e","r","o">>,
              <<"f","e","b","r","e","r","o">>,
              <<"m","a","r","z","o">>,
              <<"a","b","r","i","l">>,
              <<"m","a","y","o">>,
              <<"j","u","n","i","o">>,
              <<"j","u","l","i","o">>,
              <<"a","g","o","s","t","o">>,
              <<"s","e","p","t","i","e","m","b","r","e">>,
              <<"o","c","t","u","b","r","e">>,
              <<"n","o","v","i","e","m","b","r","e">>,
              <<"d","i","c","i","e","m","b","r","e">>>>

(* dias_es of procesar_logica_negocio: the weekday names in the order they are searched. *)
dias_es == <<<<"l","u","n","e","s">>,
             <<"m","a","r","t","e","s">>,
             <<"m","i","e","r","c","o","l","e","s">>,
             <<"m","i","é","r","c","o","l","e","s">>,
             <<"j","u","e","v","e","s">>,
             <<"v","i","e","r","n","e","s">>,
             <<"s","a","b","a","d","o">>,
             <<"s","á","b","a","d","o">>,
             <<"d","o","m","i","n","g","o">>>>

(* dias_es of _obtener_proximo_dia_semana: weekday name -> index, Monday = 0. *)
dias_es_indice == <<0, 1, 2, 2, 3, 4, 5, 5, 6>>

(***************************************************************************)
(* Language processing.                                                     *)
(***************************************************************************)
Minimo(S) == CHOOSE x \in S : \A y \in S : x <= y
Maximo(S) == CHOOSE x \in S : \A y \in S : x >= y

(* str.strip() *)
strip(s) ==
    SubSeq(s, Minimo({ i \in DOMAIN s : ~EsEspacio(s[i]) } \cup { Len(s) + 1 }),
              Maximo({ i \in DOMAIN s : ~EsEspacio(s[i]) } \cup { 0 }))

(* re.sub(r'\s+', ' ', s): every run of whitespace becomes one space. *)
re_sub_espacios(s) ==
    LET marca == [i \in DOMAIN s |->
                    IF EsEspacio(s[i])
                    THEN (IF i > 1 /\ EsEspacio(s[i - 1]) THEN "" ELSE " ")
                    ELSE s[i]]
    IN  SelectSeq(marca, LAMBDA c : c # "")

(* str.split(): the maximal runs of non-whitespace, in order. *)
RECURSIVE split(_)
split(s) ==
    LET desde(a) ==
            IF a > Len(s) THEN <<>>
            ELSE LET hasta(b) == <<SubSeq(s, a, b)>> \o split(SubSeq(s, b + 1, Len(s)))
                 IN  hasta(FinDeTramo(no_son_espacios(s), a))
    IN  desde(FinDeTramo(son_espacios(s), 1) + 1)

(* normalizar_texto with the whitespace seen to before the punctuation is removed. *)
normalizar_texto_espacios_primero(txt) ==
    lower(SelectSeq(strip(re_sub_espacios(txt)), LAMBDA c : c \notin punctuation))

normalizar_texto(txt) ==
    lower(strip(re_sub_espacios(SelectSeq(txt, LAMBDA c : c \notin punctuation))))

tokenizar(txt) == split(normalizar_texto(txt))

(* remover_stopwords taking the negation words for stopwords too. *)
remover_stopwords_y_negaciones(toks) ==
    SelectSeq(toks, LAMBDA t : t \notin STOPWORDS_ES \cup Rango(negaciones))

remover_stopwords(toks) == SelectSeq(toks, LAMBDA t : t \notin STOPWORDS_ES)

(* tiene_negacion with the window closed on both sides: idx - ventana to idx + ventana. *)
tiene_negacion_simetrica(toks, palabra, ventana) ==
    LET en_ventana(idx) ==
            LET inicio == IF idx - ventana > 0 THEN idx - ventana ELSE 0
                fin    == IF Len(toks) < idx + ventana + 1 THEN Len(toks) ELSE idx + ventana + 1
            IN  \E i \in inicio..(fin - 1) : toks[i + 1] \in Rango(negaciones)
    IN  IF palabra \notin Rango(toks) THEN FALSE
        ELSE en_ventana(Minimo({ i \in DOMAIN toks : toks[i] = palabra }) - 1)

(* tiene_negacion: positions are Python's, counted from 0. *)
tiene_negacion(toks, palabra, ventana) ==
    LET en_ventana(idx) ==
            LET inicio == IF idx - ventana > 0 THEN idx - ventana ELSE 0
                fin    == IF Len(toks) < idx + ventana THEN Len(toks) ELSE idx + ventana
            IN  \E i \in inicio..(fin - 1) : toks[i + 1] \in Rango(negaciones)
    IN  IF palabra \notin Rango(toks) THEN FALSE
        ELSE en_ventana(Minimo({ i \in DOMAIN toks : toks[i] = palabra }) - 1)

(***************************************************************************)
(* difflib.SequenceMatcher(None, a, b).ratio(), with no junk (autojunk only *)
(* acts on sequences of 200 elements or more).  Positions are Python's:     *)
(* counted from 0, ranges half open.                                        *)
(***************************************************************************)
RECURSIVE largo_comun(_, _, _, _, _, _)
largo_comun(a, b, i, j, ahi, bhi) ==
    IF i < ahi /\ j < bhi /\ a[i + 1] = b[j + 1]
    THEN 1 + largo_comun(a, b, i + 1, j + 1, ahi, bhi)
    ELSE 0

(* <<i, j, k>>: the longest block a[i:i+k] = b[j:j+k] within a[alo:ahi] and     *)
(* b[blo:bhi]; of the longest, the one starting earliest in a, and of those    *)
(* the one starting earliest in b; <<alo, blo, 0>> when nothing matches.       *)
find_longest_match(a, b, alo, ahi, blo, bhi) ==
    LET mejor(buenos) ==
            IF buenos = {} THEN <<alo, blo, 0>>
            ELSE CHOOSE m \in buenos :
                    \A n \in buenos :
                        \/ m[3] > n[3]
                        \/ m[3] = n[3] /\ m[1] < n[1]
                        \/ m[3] = n[3] /\ m[1] = n[1] /\ m[2] <= n[2]
    IN  mejor({ m \in { <<p[1], p[2], largo_comun(a, b, p[1], p[2], ahi, bhi)>> :
                            p \in (alo..(ahi - 1)) \X (blo..(bhi - 1)) } : m[3] > 0 })

(* The total size of the blocks of get_matching_blocks(). *)
RECURSIVE coincidencias(_, _, _, _, _, _)
coincidencias(a, b, alo, ahi, blo, bhi) ==
    LET alrededor(i, j, k) ==
            IF k = 0 THEN 0
            ELSE k + (IF alo < i /\ blo < j THEN coincidencias(a, b, alo, i, blo, j) ELSE 0)
                   + (IF i + k < ahi /\ j + k < bhi
                      THEN coincidencias(a, b, i + k, ahi, j + k, bhi) ELSE 0)
        de(m) == alrededor(m[1], m[2], m[3])
    IN  de(find_longest_match(a, b, alo, ahi, blo, bhi))

(* ratio() as the fraction <<numerator, denominator>>: 2.0 * matches / length, *)
(* and 1.0 when both sequences are empty.                                      *)
ratio(a, b) ==
    IF Len(a) + Len(b) = 0 THEN <<1, 1>>
    ELSE <<2 * coincidencias(a, b, 0, Len(a), 0, Len(b)), Len(a) + Len(b)>>

(* x >= y and x > y for fractions with positive denominators. *)
FraccionMayorIgual(x, y) == x[1] * y[2] >= y[1] * x[2]
FraccionMayor(x, y) == x[1] * y[2] > y[1] * x[2]

(* umbral=0.75 *)
UmbralNum == 3
UmbralDen == 4

(* None where a string is expected (no option is the empty string). *)
Ninguno == <<>>

(* buscar_concepto_fuzzy keeping the last, not the first, of the options that  *)
(* share the highest similarity.                                               *)
buscar_concepto_fuzzy_ultima_maxima(entrada, opciones, umbral_) ==
    LET mejor(similitud, mejores) ==
            IF mejores = {} THEN Ninguno
            ELSE opciones[CHOOSE i \in mejores :
                            \A j \in mejores :
                                \/ FraccionMayor(similitud[i], similitud[j])
                                \/ ~FraccionMayor(similitud[j], similitud[i]) /\ i >= j]
        con(similitud) ==
            mejor(similitud, { i \in DOMAIN opciones : FraccionMayorIgual(similitud[i], umbral_) })
        con_entrada(entrada_norm) ==
            con([i \in DOMAIN opciones |-> ratio(entrada_norm, normalizar_texto(opciones[i]))])
    IN  con_entrada(normalizar_texto(entrada))

(* buscar_concepto_fuzzy: the option with the highest similarity among those  *)
(* reaching the threshold, the first of them in the order of opciones (max()  *)
(* keeps the first maximal element); None when no option reaches it.          *)
buscar_concepto_fuzzy(entrada, opciones, umbral) ==
    LET mejor(similitud, mejores) ==
            IF mejores = {} THEN Ninguno
            ELSE opciones[CHOOSE i \in mejores :
                            \A j \in mejores :
                                \/ FraccionMayor(similitud[i], similitud[j])
                                \/ ~FraccionMayor(similitud[j], similitud[i]) /\ i <= j]
        con(similitud) ==
            mejor(similitud, { i \in DOMAIN opciones : FraccionMayorIgual(similitud[i], umbral) })
        con_entrada(entrada_norm) ==
            con([i \in DOMAIN opciones |-> ratio(entrada_norm, normalizar_texto(opciones[i]))])
    IN  con_entrada(normalizar_texto(entrada))

(***************************************************************************)
(* Dates: datetime and calendar of the standard library, on records         *)
(* [year, month, day].  The time of day plays no part: every comparison is  *)
(* of .date() and the record's fecha is formatted "%Y-%m-%d".               *)
(***************************************************************************)
Fecha(y, m, d) == [year |-> y, month |-> m, day |-> d]

(* None where a date is expected: not a day of the calendar. *)
NoFecha == Fecha(0, 0, 0)

EsBisiesto(y) == y % 4 = 0 /\ (y % 100 # 0 \/ y % 400 = 0)

(* calendar.monthrange(year, month)[1] *)
DiasDelMes(y, m) ==
    IF m = 2 THEN (IF EsBisiesto(y) THEN 29 ELSE 28)
    ELSE IF m \in {4, 6, 9, 11} THEN 30 ELSE 31

(* A [year, month, day] that names a day of the calendar. *)
EsFechaValida(f) ==
    /\ f \in [year : Int, month : 1..12, day : Int]
    /\ f.year >= 1
    /\ f.day >= 1
    /\ f.day <= DiasDelMes(f.year, f.month)

RECURSIVE DiasAntesDelMes(_, _)
DiasAntesDelMes(y, m) == IF m = 1 THEN 0 ELSE DiasAntesDelMes(y, m - 1) + DiasDelMes(y, m - 1)

(* date.toordinal(): 1 for 0001-01-01. *)
toordinal(f) ==
    LET y == f.year - 1
    IN  y * 365 + (y \div 4) - (y \div 100) + (y \div 400) + DiasAntesDelMes(f.year, f.month) + f.day

(* date.fromordinal(): the divmod chain of datetime's _ord2ymd, by cycles of *)
(* 400, 100, 4 and 1 years, then the month within the year.                 *)
fromordinal(n) ==
    LET en_mes(y, m, r1) == Fecha(y, m, r1 - DiasAntesDelMes(y, m) + 1)
        en_anio(y, r1) ==
            en_mes(y, CHOOSE k \in 1..12 :
                          /\ DiasAntesDelMes(y, k) <= r1
                          /\ r1 < DiasAntesDelMes(y, k) + DiasDelMes(y, k), r1)
        ciclo1(y, n100, n1, r1) ==
            IF n1 = 4 \/ n100 = 4 THEN Fecha(y - 1, 12, 31) ELSE en_anio(y, r1)
        ciclo4(y, n100, r4) == ciclo1(y + (r4 \div 365), n100, r4 \div 365, r4 % 365)
        ciclo100(y, n100, r100) == ciclo4(y + (r100 \div 1461) * 4, n100, r100 % 1461)
        ciclo400(y, r400) == ciclo100(y + (r400 \div 36524) * 100, r400 \div 36524, r400 % 36524)
        desde(n0) == ciclo400((n0 \div 146097) * 400 + 1, n0 % 146097)
    IN  desde(n - 1)

(* date.weekday(): Monday is 0. *)
weekday(f) == (toordinal(f) + 6) % 7

(* f + timedelta(days=n) *)
mas_dias(f, n) == fromordinal(toordinal(f) + n)

(* a.date() < b.date() *)
FechaAnterior(a, b) == toordinal(a) < toordinal(b)

_clamp_day(y, m, d) == Minimo({ d, DiasDelMes(y, m) })

(* _safe_date: datetime(year, month, day) raises ValueError for a day below 1; *)
(* NoFecha stands for the exception, which every caller with a day that may be 0  *)
(* catches.                                                                    *)
_safe_date(y, m, d) ==
    LET datetime(dd) == IF dd >= 1 THEN Fecha(y, m, dd) ELSE NoFecha
    IN  datetime(_clamp_day(y, m, d))

(* dias_es[nombre_dia] of _obtener_proximo_dia_semana *)
dia_objetivo_de(nombre_dia) == dias_es_indice[Indice(dias_es, nombre_dia)]

(* _obtener_proximo_dia_semana without the week added when the day is not today's. *)
_obtener_proximo_dia_semana_sin_sumar(nombre_dia, ahora_, proxima_semana) ==
    LET adelante(dias_adelante) ==
            IF proxima_semana
            THEN (IF dias_adelante = 0 THEN mas_dias(ahora_, 7)
                  ELSE mas_dias(ahora_, dias_adelante))
            ELSE mas_dias(ahora_, dias_adelante)
    IN  IF nombre_dia \notin Rango(dias_es) THEN NoFecha
        ELSE adelante((dia_objetivo_de(nombre_dia) - weekday(ahora_)) % 7)

_obtener_proximo_dia_semana(nombre_dia, ahora_, proxima_semana) ==
    LET adelante(dias_adelante) ==
            IF proxima_semana
            THEN (IF dias_adelante = 0 THEN mas_dias(ahora_, 7)
                  ELSE mas_dias(ahora_, dias_adelante + 7))
            ELSE mas_dias(ahora_, dias_adelante)
    IN  IF nombre_dia \notin Rango(dias_es) THEN NoFecha
        ELSE adelante((dia_objetivo_de(nombre_dia) - weekday(ahora_)) % 7)

(* The decimal digits of n >= 0, at least ancho of them. *)
RECURSIVE Decimal(_, _)
Decimal(n, ancho) ==
    IF n < 10 /\ ancho <= 1 THEN <<Digitos[n + 1]>>
    ELSE Decimal(n \div 10, ancho - 1) \o <<Digitos[(n % 10) + 1]>>

(* f.strftime("%Y-%m-%d") *)
strftime(f) == Decimal(f.year, 4) \o <<"-">> \o Decimal(f.month, 2) \o <<"-">> \o Decimal(f.day, 2)

(* datetime.strptime(s, "%Y-%m-%d"): four digits, one or two, one or two,     *)
(* joined by hyphens and naming a day of the calendar; NoFecha stands for the *)
(* ValueError of anything else.                                               *)
strptime(s) ==
    LET digitos(x) == \A i \in DOMAIN x : EsDigito(x[i])
        de_numeros(y, m, d) ==
            IF m \in 1..12 /\ EsFechaValida(Fecha(y, m, d)) THEN Fecha(y, m, d) ELSE NoFecha
        de_partes(ys, ms, ds) ==
            IF /\ Len(ys) = 4 /\ Len(ms) \in 1..2 /\ Len(ds) \in 1..2
               /\ digitos(ys) /\ digitos(ms) /\ digitos(ds)
            THEN de_numeros(int(ys), int(ms), int(ds))
            ELSE NoFecha
        de_guiones(guiones) ==
            IF Cardinality(guiones) # 2 THEN NoFecha
            ELSE de_partes(SubSeq(s, 1, Minimo(guiones) - 1),
                           SubSeq(s, Minimo(guiones) + 1, Maximo(guiones) - 1),
                           SubSeq(s, Maximo(guiones) + 1, Len(s)))
    IN  de_guiones({ i \in DOMAIN s : s[i] = "-" })

(***************************************************************************)
(* The inputs of the model.                                                 *)
(***************************************************************************)
(* The words of s joined by single spaces. *)
RECURSIVE Unir(_)
Unir(s) == IF s = <<>> THEN <<>>
           ELSE IF Len(s) = 1 THEN s[1]
           ELSE s[1] \o <<" ">> \o Unir(Tail(s))

(* Every text of at most n words of V. *)
TextosDe(V, n) == UNION { { Unir(s) : s \in [1..k -> V] } : k \in 0..n }

(* The sentences of test_mejoras.py and others around the cases of the date logic. *)
Frases == {
    <<"E","x","a","m","e","n"," ","d","e"," ","W","e","b"," ","m","a","ñ","a","n","a">>,
    <<"P","r","o","y","e","c","t","o"," ","d","e"," ","B","I"," ","p","a","r","a"," ","e","l"," ","2","7"," ","d","e"," ","f","e","b","r","e","r","o">>,
    <<"N","o"," ","e","s"," ","u","r","g","e","n","t","e"," ","p","e","r","o"," ","d","e","b","o"," ","e","n","t","r","e","g","a","r"," ","e","l"," ","d","e","b","e","r"," ","d","e"," ","r","e","a","l","i","d","a","d"," ","n","a","c","i","o","n","a","l">>,
    <<"T","a","l","l","e","r"," ","d","e"," ","a","p","l","i","c","a","c","i","o","n","e","s"," ","d","i","s","t","r","i","b","u","i","d","a","s"," ","p","r","ó","x","i","m","o"," ","l","u","n","e","s">>,
    <<"P","a","p","e","r"," ","i","n","v","e","s","t","i","g","a","c","i","ó","n"," ","i","n","t","e","l","i","g","e","n","c","i","a"," ","n","e","g","o","c","i","o","s"," ","-"," ","c","r","í","t","i","c","o","!">>,
    <<"E","n","t","r","e","g","a","r"," ","t","r","a","b","a","j","o"," ","f","o","r","o"," ","f","á","c","i","l"," ","s","u","a","v","e">>,
    <<"e","x","a","m","n","e"," ","d","e"," ","B","i">>,
    <<>>,
    <<" "," "," ">>,
    <<" ", "\t", "\n">>,
    <<"D","e","b","e","r"," ","p","a","r","a"," ","m","a","ñ","a","n","a",","," ","a","n","t","e","s"," ","d","e","l"," ","p","r","ó","x","i","m","o"," ","l","u","n","e","s">>,
    <<"e","n","t","r","e","g","a","r"," ","e","n"," ","2"," ","s","e","m","a","n","a","s"," ","e","l"," ","t","a","l","l","e","r"," ","d","e"," ","e","s","t","e"," ","v","i","e","r","n","e","s">>,
    <<"p","a","s","a","d","o"," ","m","a","ñ","a","n","a">>,
    <<"H","O","Y">>,
    <<"a","y","e","r">>,
    <<"0"," ","d","e"," ","m","a","r","z","o">>,
    <<"3","1"," ","d","e"," ","f","e","b","r","e","r","o">>,
    <<"5"," ","d","e"," ","r","e","a","l","i","d","a","d">>,
    <<"q","u","i","z"," ","d","e"," ","i","n","g","l","é","s"," ","e","l"," ","3"," ","d","e"," ","D","i","c","i","e","m","b","r","e"," "," ","U","R","G","E","N","T","E">>,
    <<"e","s","t","e"," ","m","a","r","t","e","s"," ","o"," ","e","l"," ","l","u","n","e","s">>,
    <<"i","r"," ","a","l"," ","o","e","s","t","e"," ","e","l"," ","l","u","n","e","s">>
}

VocabularioGeneral == { <<"E","x","a","m","e","n">>, <<"U","R","G","E","N","T","E">>, <<"n","o">>, <<"m","a","ñ","a","n","a">>, <<"p","r","ó","x","i","m","o">>, <<"l","u","n","e","s">> }

MaxPalabras == 2

Textos == Frases \cup TextosDe(VocabularioGeneral, MaxPalabras)

(* The reference dates: a leap day, the ends of months and of the year, a Monday. *)
Ahoras == { Fecha(2024, 2, 29), Fecha(2024, 3, 1), Fecha(2024, 12, 31),
            Fecha(2025, 1, 6), Fecha(2025, 1, 31) }

(* What the user may type at the confirmation prompt. *)
Respuestas == { <<" ","E","s","t","e"," ","m","e","s"," ">>, <<"e","s","t","e">>, <<"p","r","ó","x","i","m","o">>, <<"S","I","G","U","I","E","N","T","E">>, <<"2","0","2","0","-","0","1","-","0","1">>, <<"2","0","3","0","-","6","-","1","5">>,
                <<"2","0","2","4","-","0","2","-","3","0">>, <<"e","l"," ","v","i","e","r","n","e","s">>, <<" ">> }

(* The words the priority resolver is tried on, and how many of them a text has. *)
VocabularioPrioridad == { <<"n","o">>, <<"u","r","g","e","n","t","e">>, <<"i","m","p","o","r","t","a","n","t","e">>, <<"c","r","i","t","i","c","o">>, <<"f","a","c","i","l">>, <<"t","a","r","e","a">> }

MaxTokensPrioridad == 4

(* Texts past that length, for the two ends of the negation window. *)
FrasesPrioridad == {
    <<"n","o"," ","t","a","r","e","a"," ","t","a","r","e","a"," ","t","a","r","e","a"," ","u","r","g","e","n","t","e">>,
    <<"u","r","g","e","n","t","e"," ","t","a","r","e","a"," ","t","a","r","e","a"," ","n","o">>,
    <<"c","r","i","t","i","c","o"," ","t","a","r","e","a"," ","t","a","r","e","a"," ","t","a","r","e","a"," ","t","a","r","e","a"," ","n","o"," ","u","r","g","e","n","t","e">>,
    <<"N","o"," ","e","s"," ","U","R","G","E","N","T","E",","," ","p","e","r","o"," ","e","s"," ","f","á","c","i","l","!">>,
    <<"n","u","n","c","a"," ","u","r","g","e"," ","l","o"," ","i","m","p","o","r","t","a","n","t","e">>,
    <<"N","o"," ","n","u","n","c","a"," ","e","s"," ","u","r","g","e","n","t","e",","," ","n","i"," ","f","á","c","i","l">> }

TextosPrioridad == FrasesPrioridad \cup TextosDe(VocabularioPrioridad, MaxTokensPrioridad)

(* The words the two classifiers are tried on: variants of two subjects and    *)
(* keywords of two types, words one or two letters off a variant or a type     *)
(* name, and a stopword.                                                       *)
VocabularioClasificar == { <<"i","n","g","l","é","s">>, <<"W","e","b">>, <<"r","e","a","k","t">>, <<"i","n","g","l","s">>, <<"t","a","l","l","e","r">>, <<"e","x","a","m","e","n">>,
                           <<"p","r","o","y","e","t","o">>, <<"e","x","a","m","n","e">>, <<"d","e">> }

MaxPalabrasClasificar == 3

TextosClasificar == TextosDe(VocabularioClasificar, MaxPalabrasClasificar)

(* Every token a text of the model can give. *)
TokensDelModelo == UNION { Rango(tokenizar(t)) : t \in Textos \cup VocabularioClasificar }

(* The texts "<d> de <month>": d written in decimal, every month of the table. *)
TextoExplicito(d, m) == Decimal(d, 1) \o <<" ","d","e"," ">> \o meses_es[m]

(* The days written: up to MaxDiaTexto, and some of two and three digits. *)
MaxDiaTexto == 32

DiasTexto == (0..MaxDiaTexto) \cup { 99, 100, 127, 131 }

TextosExplicitos == { TextoExplicito(d, m) : d \in DiasTexto, m \in 1..12 }

(* Reference dates every PasoAhoras days from the first day of a leap year, over *)
(* two years, and the days around the end of February and of the year.          *)
PasoAhoras == 23

MaxAhoras == 31

AhorasExplicita ==
    { mas_dias(Fecha(2024, 1, 1), PasoAhoras * k) : k \in 0..MaxAhoras }
    \cup { Fecha(2024, 2, 28), Fecha(2024, 2, 29), Fecha(2024, 3, 1), Fecha(2024, 12, 31),
           Fecha(2025, 2, 28), Fecha(2025, 3, 1), Fecha(2025, 3, 31) }

(* The reference dates of the weekday calls: MaxDiasSemana + 1 days in a row, *)
(* across the end of a year.                                                  *)
MaxDiasSemana == 13

AhorasSemana == { mas_dias(Fecha(2024, 12, 25), k) : k \in 0..MaxDiasSemana }

(* The names given to _obtener_proximo_dia_semana: the weekday names and one that is none. *)
NombresDeDia == Rango(dias_es) \cup { <<"l","u","n","e","z">> }

(***************************************************************************)
(* extraer_fechas_mejorado: four regular expressions tried in order on the  *)
(* lower-cased text, each with re.search (the leftmost match); the groups   *)
(* of the first expression that matches anywhere are returned with its kind.*)
(***************************************************************************)
NoCoincide == <<>>

(* (\d{1,2})\s*de\s+(\w+) matched from position i: <<day, word>>.  Every piece *)
(* is greedy and what follows it cannot start with what it consumes, so the   *)
(* longest run is the only one that can lead to a match.                      *)
patron_explicita_en(t, i) ==
    LET con_fw(fd, fe, fs, fw) ==
            IF EmpiezaEn(t, fe + 1, <<"d","e">>) /\ fs >= fe + 3 /\ fw >= fs + 1
            THEN <<SubSeq(t, i, fd), SubSeq(t, fs + 1, fw)>>
            ELSE NoCoincide
        con_fs(fd, fe, fs) == con_fw(fd, fe, fs, FinDeTramo(son_de_palabra(t), fs + 1))
        con_fe(fd, fe) == con_fs(fd, fe, FinDeTramo(son_espacios(t), fe + 3))
        con_fd(fd) == con_fe(fd, FinDeTramo(son_espacios(t), fd + 1))
    IN  IF i > Len(t) \/ ~EsDigito(t[i]) THEN NoCoincide
        ELSE con_fd(IF i + 1 <= Len(t) /\ EsDigito(t[i + 1]) THEN i + 1 ELSE i)

unidades_relativas == <<<<"s","e","m","a","n","a">>, <<"d","í","a">>, <<"h","o","r","a">>, <<"m","e","s","e">>>>

(* The first alternative of opciones that the text has at position i, each    *)
(* followed by an optional "s" when plural: its text as matched.              *)
alternativa_en(t, i, opciones, plural) ==
    LET con_plural(o) ==
            IF plural /\ EmpiezaEn(t, i + Len(o), <<"s">>) THEN o \o <<"s">> ELSE o
        primera(ok) == IF ok = {} THEN NoCoincide ELSE con_plural(opciones[Minimo(ok)])
    IN  primera({ k \in DOMAIN opciones : EmpiezaEn(t, i, opciones[k]) })

(* en\s+(\d+)\s+(semanas?|días?|horas?|meses?) matched from position i. *)
patron_relativa_n_en(t, i) ==
    LET con_u(fs1, fd, fs2, u) ==
            IF fs1 >= i + 2 /\ fd >= fs1 + 1 /\ fs2 >= fd + 1 /\ u # NoCoincide
            THEN <<SubSeq(t, fs1 + 1, fd), u>>
            ELSE NoCoincide
        con_fs2(fs1, fd, fs2) ==
            con_u(fs1, fd, fs2, alternativa_en(t, fs2 + 1, unidades_relativas, TRUE))
        con_fd(fs1, fd) == con_fs2(fs1, fd, FinDeTramo(son_espacios(t), fd + 1))
        con_fs1(fs1) == con_fd(fs1, FinDeTramo(son_digitos(t), fs1 + 1))
    IN  IF ~EmpiezaEn(t, i, <<"e","n">>) THEN NoCoincide
        ELSE con_fs1(FinDeTramo(son_espacios(t), i + 2))

(* \b at the gap before position i: a word character on exactly one side. *)
borde(t, i) ==
    (i - 1 >= 1 /\ i - 1 <= Len(t) /\ EsPalabra(t[i - 1]))
        # (i >= 1 /\ i <= Len(t) /\ EsPalabra(t[i]))

(* \b(mañana|hoy|pasado\s+mañana|ayer)\b matched from position i: the first  *)
(* alternative, in the order written, that matches with both borders.        *)
patron_relativa_dia_en(t, i) ==
    LET lit(x) == EmpiezaEn(t, i, x) /\ borde(t, i + Len(x))
        pasado(fs) ==
            /\ EmpiezaEn(t, i, <<"p","a","s","a","d","o">>) /\ fs >= i + 6
            /\ EmpiezaEn(t, fs + 1, <<"m","a","ñ","a","n","a">>) /\ borde(t, fs + 7)
        con_fs(fs) ==
            IF ~borde(t, i) THEN NoCoincide
            ELSE IF lit(<<"m","a","ñ","a","n","a">>) THEN <<<<"m","a","ñ","a","n","a">>>>
            ELSE IF lit(<<"h","o","y">>) THEN <<<<"h","o","y">>>>
            ELSE IF pasado(fs) THEN <<SubSeq(t, i, fs + 6)>>
            ELSE IF lit(<<"a","y","e","r">>) THEN <<<<"a","y","e","r">>>>
            ELSE NoCoincide
    IN  con_fs(FinDeTramo(son_espacios(t), i + 6))

calificadores == <<<<"p","r","ó","x","i","m","o">>, <<"p","r","o","x","i","m","o">>, <<"s","i","g","u","i","e","n","t","e">>, <<"e","s","t","e">>>>

(* (próximo|proximo|siguiente|este)\s+(lunes|...|domingo) matched from i. *)
patron_dia_semana_en(t, i) ==
    LET con_d(q, fs, d) ==
            IF q # NoCoincide /\ fs >= i + Len(q) /\ d # NoCoincide THEN <<q, d>> ELSE NoCoincide
        con_fs(q, fs) == con_d(q, fs, alternativa_en(t, fs + 1, dias_es, FALSE))
        con_q(q) == con_fs(q, FinDeTramo(son_espacios(t), i + Len(q)))
    IN  con_q(alternativa_en(t, i, calificadores, FALSE))

(* re.search: of the matches found from each position, the leftmost. *)
buscar(hallazgos) ==
    LET primera(hallados) == IF hallados = <<>> THEN NoCoincide ELSE hallados[1]
    IN  primera(SelectSeq(hallazgos, LAMBDA g : g # NoCoincide))

extraer_fechas_mejorado(txt) ==
    LET primero(g1, g2, g3, g4) ==
            IF g1 # NoCoincide THEN [grupos |-> g1, tipo |-> "explicita"]
            ELSE IF g2 # NoCoincide THEN [grupos |-> g2, tipo |-> "relativa"]
            ELSE IF g3 # NoCoincide THEN [grupos |-> g3, tipo |-> "relativa"]
            ELSE IF g4 # NoCoincide THEN [grupos |-> g4, tipo |-> "dia_semana"]
            ELSE [grupos |-> NoCoincide, tipo |-> "None"]
        en(texto_min) ==
            primero(buscar([i \in DOMAIN texto_min |-> patron_explicita_en(texto_min, i)]),
                    buscar([i \in DOMAIN texto_min |-> patron_relativa_n_en(texto_min, i)]),
                    buscar([i \in DOMAIN texto_min |-> patron_relativa_dia_en(texto_min, i)]),
                    buscar([i \in DOMAIN texto_min |-> patron_dia_semana_en(texto_min, i)]))
    IN  en(lower(txt))

(***************************************************************************)
(* procesar_logica_negocio, part by part.                                   *)
(***************************************************************************)
umbral == <<UmbralNum, UmbralDen>>

(* 1. MATERIAS *)
todas_variantes ==
    DICCIONARIO_MATERIAS_MEJORADO[1].variantes \o DICCIONARIO_MATERIAS_MEJORADO[2].variantes
    \o DICCIONARIO_MATERIAS_MEJORADO[3].variantes \o DICCIONARIO_MATERIAS_MEJORADO[4].variantes
    \o DICCIONARIO_MATERIAS_MEJORADO[5].variantes \o DICCIONARIO_MATERIAS_MEJORADO[6].variantes

(* The nombre of the first entry, in declared order, holding variant v. *)
materia_de_variante(v) ==
    DICCIONARIO_MATERIAS_MEJORADO[
        Minimo({ k \in DOMAIN DICCIONARIO_MATERIAS_MEJORADO :
                    v \in Rango(DICCIONARIO_MATERIAS_MEJORADO[k].variantes) })].nombre

(* materia_exacta with the tokens, not the entries, gone through in order: the *)
(* entry of the first token that is a variant.                                 *)
materia_exacta_por_token(clean) ==
    LET primera(halladas) ==
            IF halladas = <<>> THEN "" ELSE materia_de_variante(halladas[1])
    IN  primera(SelectSeq(clean, LAMBDA t : t \in Rango(todas_variantes)))

(* The first loop: the first entry with a variant among the clean tokens. *)
materia_exacta(clean) ==
    LET primera(con) ==
            IF con = {} THEN "" ELSE DICCIONARIO_MATERIAS_MEJORADO[Minimo(con)].nombre
    IN  primera({ k \in DOMAIN DICCIONARIO_MATERIAS_MEJORADO :
                    \E v \in Rango(DICCIONARIO_MATERIAS_MEJORADO[k].variantes) : v \in Rango(clean) })

(* buscar_concepto_fuzzy(token, todas_variantes, umbral=0.75), worked out once for *)
(* every token of the model.                                                      *)
variante_fuzzy == [t \in TokensDelModelo |-> buscar_concepto_fuzzy(t, todas_variantes, umbral)]

(* The second loop: the first token, in text order, that fuzzy-matches a variant. *)
materia_fuzzy(clean) ==
    LET primera(halladas) ==
            IF halladas = <<>> THEN "" ELSE materia_de_variante(halladas[1])
    IN  primera(SelectSeq([i \in DOMAIN clean |-> variante_fuzzy[clean[i]]],
                          LAMBDA v : v # Ninguno))

clasificar_materia(clean) ==
    LET o_fuzzy(exacta) == IF exacta # "" THEN exacta ELSE materia_fuzzy(clean)
    IN  o_fuzzy(materia_exacta(clean))

(* 2. TIPOS *)
Deber == <<"D","e","b","e","r">>

(* tipo_por_palabra_clave taking the keyword found, not the name of its type. *)
tipo_por_palabra_clave_hallada(clean) ==
    LET primero(con) ==
            IF con = {} THEN Deber
            ELSE capitalize(SelectSeq(tipos_palabras_clave[Minimo(con)].palabras,
                                      LAMBDA p : p \in Rango(clean))[1])
    IN  primero({ k \in DOMAIN tipos_palabras_clave :
                    \E p \in Rango(tipos_palabras_clave[k].palabras) : p \in Rango(clean) })

tipo_por_palabra_clave(clean) ==
    LET primero(con) ==
            IF con = {} THEN Deber ELSE capitalize(tipos_palabras_clave[Minimo(con)].tipo_nombre)
    IN  primero({ k \in DOMAIN tipos_palabras_clave :
                    \E p \in Rango(tipos_palabras_clave[k].palabras) : p \in Rango(clean) })

(* buscar_concepto_fuzzy(token, tipos_disponibles, umbral=0.75), worked out once *)
(* for every token of the model.                                                *)
tipo_disponible_fuzzy == [t \in TokensDelModelo |-> buscar_concepto_fuzzy(t, tipos_disponibles, umbral)]

(* tipo_fuzzy with the last, not the first, token that matches a type name. *)
tipo_fuzzy_ultimo(clean) ==
    LET ultimo(hallados) == IF hallados = <<>> THEN Deber ELSE capitalize(hallados[Len(hallados)])
    IN  ultimo(SelectSeq([i \in DOMAIN clean |-> tipo_disponible_fuzzy[clean[i]]],
                         LAMBDA v : v # Ninguno))

(* The second loop: the first token, in text order, that fuzzy-matches a type name. *)
tipo_fuzzy(clean) ==
    LET primero(hallados) == IF hallados = <<>> THEN Deber ELSE capitalize(hallados[1])
    IN  primero(SelectSeq([i \in DOMAIN clean |-> tipo_disponible_fuzzy[clean[i]]],
                          LAMBDA v : v # Ninguno))

clasificar_tipo(clean) ==
    LET o_fuzzy(por_palabra) == IF por_palabra # Deber THEN por_palabra ELSE tipo_fuzzy(clean)
    IN  o_fuzzy(tipo_por_palabra_clave(clean))

(* 3. PRIORIDAD *)
ventana == 3

hay_urgencia(clean) == \E p \in Rango(palabras_urgentes) : p \in Rango(clean)
hay_suavidad(clean) == \E p \in Rango(palabras_bajas) : p \in Rango(clean)

(* resolver_prioridad with the mildness keywords looked at first. *)
resolver_prioridad_suavidad_primero(toks, clean) ==
    LET alta == /\ hay_urgencia(clean)
                /\ ~tiene_negacion(toks, <<"u","r","g","e","n","t","e">>, ventana)
                /\ ~tiene_negacion(toks, <<"i","m","p","o","r","t","a","n","t","e">>, ventana)
    IN  IF hay_suavidad(clean) THEN "Baja"
        ELSE IF alta THEN "Alta"
        ELSE "Media"

resolver_prioridad(toks, clean) ==
    LET alta == /\ hay_urgencia(clean)
                /\ ~tiene_negacion(toks, <<"u","r","g","e","n","t","e">>, ventana)
                /\ ~tiene_negacion(toks, <<"i","m","p","o","r","t","a","n","t","e">>, ventana)
    IN  IF alta THEN "Alta"
        ELSE IF hay_suavidad(clean) THEN "Baja"
        ELSE "Media"

(***************************************************************************)
(* src/notion_automation.py: the lists of the Notion database's options and *)
(* what NotionAutomation's methods send to the Notion client.  Here a str   *)
(* is a TLA+ string (only equality, membership and emptiness are used), an  *)
(* Optional[str] a sequence of no string (None) or one, a dict a function   *)
(* from its keys, and a page_id the number n for "page-n".                  *)
(***************************************************************************)
MATERIAS_6TO == << "Ingeniería de Software", "Bases de Datos Avanzadas", "Redes y Comunicaciones",
                   "Arquitectura de Software", "Seguridad Informática", "Proyecto Integrador",
                   "Otra" >>

TIPOS_ENTRADA == << "Tarea", "Examen", "Proyecto", "Apunte", "Recurso", "Actividad" >>

ESTADOS == << "Por hacer", "En progreso", "Completado", "Cancelado" >>

PRIORIDADES == << "Alta", "Media", "Baja" >>

None == <<>>
Algun(s) == <<s>>

(* Python's truth value of an Optional[str]: neither None nor the empty string. *)
EsCierto(x) == x # None /\ x[1] # ""

(* A dict with no key. *)
DictVacio == [k \in {} |-> None]

(* if valor not in lista: valor = defecto *)
valor_o_defecto(valor, lista, defecto) == IF valor \in Rango(lista) THEN valor ELSE defecto

select_de(nombre) == [select |-> [name |-> nombre]]
texto_de(contenido) == <<[text |-> [content |-> contenido]]>>

(* agregar_entrada without its four membership tests. *)
properties_de_entrada_sin_validar(titulo, materia, tipo_, estado, prioridad_, descripcion, fecha_limite) ==
    ("Nombre" :> [title |-> texto_de(titulo)])
    @@ ("Materia" :> select_de(materia))
    @@ ("Tipo" :> select_de(tipo_))
    @@ ("Estado" :> select_de(estado))
    @@ ("Prioridad" :> select_de(prioridad_))
    @@ (IF descripcion # "" THEN ("Descripción" :> [rich_text |-> texto_de(descripcion)])
        ELSE DictVacio)
    @@ (IF EsCierto(fecha_limite) THEN ("Fecha Límite" :> [date |-> [start |-> fecha_limite[1]]])
        ELSE DictVacio)

(* agregar_entrada: the properties of the page it asks the client to create. *)
properties_de_entrada(titulo, materia, tipo_, estado, prioridad_, descripcion, fecha_limite) ==
    ("Nombre" :> [title |-> texto_de(titulo)])
    @@ ("Materia" :> select_de(valor_o_defecto(materia, MATERIAS_6TO, "Otra")))
    @@ ("Tipo" :> select_de(valor_o_defecto(tipo_, TIPOS_ENTRADA, "Tarea")))
    @@ ("Estado" :> select_de(valor_o_defecto(estado, ESTADOS, "Por hacer")))
    @@ ("Prioridad" :> select_de(valor_o_defecto(prioridad_, PRIORIDADES, "Media")))
    @@ (IF descripcion # "" THEN ("Descripción" :> [rich_text |-> texto_de(descripcion)])
        ELSE DictVacio)
    @@ (IF EsCierto(fecha_limite) THEN ("Fecha Límite" :> [date |-> [start |-> fecha_limite[1]]])
        ELSE DictVacio)

(* listar_entradas: one condition for a filter given. *)
condicion(propiedad, valor) == [property |-> propiedad, select |-> [equals |-> valor]]

(* listar_entradas with every argument that is not None taken for a filter. *)
filtros_de_no_none(materia, estado, tipo_) ==
    (IF materia # None THEN <<condicion("Materia", materia[1])>> ELSE <<>>)
    \o (IF estado # None THEN <<condicion("Estado", estado[1])>> ELSE <<>>)
    \o (IF tipo_ # None THEN <<condicion("Tipo", tipo_[1])>> ELSE <<>>)

(* listar_entradas: the list filtros. *)
filtros_de(materia, estado, tipo_) ==
    (IF EsCierto(materia) THEN <<condicion("Materia", materia[1])>> ELSE <<>>)
    \o (IF EsCierto(estado) THEN <<condicion("Estado", estado[1])>> ELSE <<>>)
    \o (IF EsCierto(tipo_) THEN <<condicion("Tipo", tipo_[1])>> ELSE <<>>)

(* listar_entradas: query_params. *)
query_params_de(db, filtros) ==
    ("database_id" :> db)
    @@ (IF filtros # <<>>
        THEN ("filter" :> (IF Len(filtros) = 1 THEN filtros[1] ELSE [and |-> filtros]))
        ELSE DictVacio)

(* The methods of the Notion client that NotionAutomation calls. *)
MetodosDelCliente == { "pages.create", "databases.query", "pages.update" }

(* Before any call. *)
NoLlamada == [op |-> "", args |-> DictVacio]
NoSolicitud == [metodo |-> "", kwargs |-> DictVacio]

(* A page as the database stores it. *)
Pagina(properties) == [properties |-> properties, archived |-> FALSE]

(***************************************************************************)
(* src/app.py: the handler of POST /agendar, and enviar_a_notion of         *)
(* src/nexus_local.py, which it calls.  A JSON value is modelled by its     *)
(* class, its length and, for an object, the value under the key "orden".   *)
(***************************************************************************)
(* The value of an object under "orden": none (the key is absent), null, a string, a number. *)
SinOrden == [clase |-> "ausente", str |-> <<>>, int |-> 0]
OrdenNone == [clase |-> "None", str |-> <<>>, int |-> 0]
OrdenStr(s) == [clase |-> "str", str |-> s, int |-> 0]
OrdenInt(n) == [clase |-> "int", str |-> <<>>, int |-> n]

(* request.get_json(force=True, silent=True): None for a body that is not valid *)
(* JSON, else the value parsed: an object of n keys, an array of n elements.    *)
JsonNone == [clase |-> "None", largo |-> 0, orden |-> SinOrden]
JsonDict(n, orden) == [clase |-> "dict", largo |-> n, orden |-> orden]
JsonList(n) == [clase |-> "list", largo |-> n, orden |-> SinOrden]

(* not data *)
no_data(d) == d.clase = "None" \/ d.largo = 0

(* data.get('orden'), of an object: None when it has no such key. *)
data_get_orden(d) == IF d.orden.clase = "ausente" THEN OrdenNone ELSE d.orden

(* not orden_usuario *)
no_orden_usuario(o) ==
    \/ o.clase = "None"
    \/ o.clase = "str" /\ o.str = <<>>
    \/ o.clase = "int" /\ o.int = 0

(* jsonify({...}), status: a response of the handler.  detalle is the record of *)
(* the interpreter in the response of a success and NoResultado in any other;   *)
(* the mensaje of the except clause, str(e), is given as the class of e, and    *)
(* notion_raw, the text of Notion's answer, is left out.                        *)
Respuesta(codigo, status, mensaje, detalle) ==
    [codigo |-> codigo, status |-> status, mensaje |-> mensaje, detalle |-> detalle]

(* os.getenv("DATABASE_ID") *)
DATABASE_ID == "DATABASE_ID"

(* enviar_a_notion: propiedades and payload. *)
propiedades_de(datos) ==
    ("Nombre" :> [title |-> <<[text |-> [content |-> datos.nombre]]>>])
    @@ ("Fecha de Entrega" :> [date |-> [start |-> datos.fecha]])
    @@ ("Prioridad" :> [select |-> [name |-> datos.prioridad]])
    @@ ("Tipo" :> [select |-> [name |-> datos.tipo]])
    @@ (IF datos.materia # "" THEN ("Materia" :> [select |-> [name |-> datos.materia]])
        ELSE DictVacio)

payload_de(datos) ==
    [parent |-> [database_id |-> DATABASE_ID], properties |-> propiedades_de(datos)]

(* What requests.post gives: a response with a status code, or an exception.  *)
RespuestaDePost(status_code) == [lanza |-> FALSE, status_code |-> status_code]
ExcepcionDePost == [lanza |-> TRUE, status_code |-> 0]
NoRespuestaDePost == [lanza |-> FALSE, status_code |-> 0]

(* 4. LÓGICA DE FECHA *)

(* fecha_explicita with today's own day taken for a day already gone. *)
fecha_explicita_hoy_pasado(txt, ahora_) ==
    LET con_anio(mes_num, dia_num, pasa) ==
            _safe_date(IF pasa THEN ahora_.year + 1 ELSE ahora_.year, mes_num, dia_num)
        con_mes(mes_num, dia_num) ==
            con_anio(mes_num, dia_num,
                     mes_num < ahora_.month \/ (mes_num = ahora_.month /\ dia_num <= ahora_.day))
        con_grupos(dia_num, mes_nombre) ==
            IF mes_nombre \in Rango(meses_es)
            THEN con_mes(Indice(meses_es, mes_nombre), dia_num)
            ELSE NoFecha
        de(e) ==
            IF e.grupos # NoCoincide /\ e.tipo = "explicita"
            THEN con_grupos(int(e.grupos[1]), e.grupos[2])
            ELSE NoFecha
    IN  de(extraer_fechas_mejorado(txt))

(* PATRÓN 1: the explicit "<day> de <month>" of extraer_fechas_mejorado. *)
fecha_explicita(txt, ahora_) ==
    LET con_anio(mes_num, dia_num, pasa) ==
            _safe_date(IF pasa THEN ahora_.year + 1 ELSE ahora_.year, mes_num, dia_num)
        con_mes(mes_num, dia_num) ==
            con_anio(mes_num, dia_num,
                     mes_num < ahora_.month \/ (mes_num = ahora_.month /\ dia_num < ahora_.day))
        con_grupos(dia_num, mes_nombre) ==
            IF mes_nombre \in Rango(meses_es)
            THEN con_mes(Indice(meses_es, mes_nombre), dia_num)
            ELSE NoFecha
        de(e) ==
            IF e.grupos # NoCoincide /\ e.tipo = "explicita"
            THEN con_grupos(int(e.grupos[1]), e.grupos[2])
            ELSE NoFecha
    IN  de(extraer_fechas_mejorado(txt))

(* The loop "for dia in dias_es: if dia in texto_min": the first weekday name, *)
(* in the order of dias_es, that the text holds anywhere.                      *)
fecha_de_primer_dia(texto_min, ahora_, proxima_semana) ==
    LET primero(con) ==
            IF con = <<>> THEN NoFecha
            ELSE _obtener_proximo_dia_semana(con[1], ahora_, proxima_semana)
    IN  primero(SelectSeq(dias_es, LAMBDA dia : Contiene(texto_min, dia)))

(* PATRÓN 2 *)
fecha_proximo_dia(texto_min, ahora_) ==
    IF \E kw \in { <<"p","r","ó","x","i","m","o">>, <<"p","r","o","x","i","m","o">>, <<"s","i","g","u","i","e","n","t","e">> } : Contiene(texto_min, kw)
    THEN fecha_de_primer_dia(texto_min, ahora_, TRUE)
    ELSE NoFecha

(* PATRÓN 3 *)
fecha_este_dia(texto_min, ahora_) ==
    IF \E kw \in { <<"e","s","t","e">>, <<"e","s","t","e"," ","s","e","m","a","n","a">> } : Contiene(texto_min, kw)
    THEN fecha_de_primer_dia(texto_min, ahora_, FALSE)
    ELSE NoFecha

(* The date logic up to PATRÓN 3; NoFecha when the fallback parser is needed. *)
fecha_por_patrones(txt, ahora_) ==
    LET primera(f1, f2, f3) ==
            IF f1 # NoFecha THEN [fecha |-> f1, estrategia |-> "explicita"]
            ELSE IF f2 # NoFecha THEN [fecha |-> f2, estrategia |-> "proximo_dia"]
            ELSE IF f3 # NoFecha THEN [fecha |-> f3, estrategia |-> "este_dia"]
            ELSE [fecha |-> NoFecha, estrategia |-> "None"]
    IN  primera(fecha_explicita(txt, ahora_),
                fecha_proximo_dia(lower(txt), ahora_),
                fecha_este_dia(lower(txt), ahora_))

(* How far from the reference date a date returned by the fallback parser may lie. *)
MaxDesvio == 2

(* dateparser.parse(s, languages=['es'], settings={..., 'RELATIVE_BASE': ahora}): *)
(* a library outside the repository.  What it can return: nothing for a text     *)
(* with nothing in it but whitespace; for any other text nothing, or a date on   *)
(* either side of the reference date.                                            *)
dateparser_parse(s, ahora_) ==
    IF \A i \in DOMAIN s : EsEspacio(s[i]) THEN { NoFecha }
    ELSE { NoFecha } \cup { mas_dias(ahora_, k) : k \in (0 - MaxDesvio)..MaxDesvio }

(* fecha_con_fallback with today, not tomorrow, for its default. *)
fecha_con_fallback_hoy(p, dp, ahora_) ==
    IF p.fecha # NoFecha THEN p
    ELSE IF dp # NoFecha THEN [fecha |-> dp, estrategia |-> "dateparser"]
    ELSE [fecha |-> mas_dias(ahora_, 0), estrategia |-> "defecto"]

(* PATRÓN 4 and the default: the date of the fallback parser, else tomorrow. *)
fecha_con_fallback(p, dp, ahora_) ==
    IF p.fecha # NoFecha THEN p
    ELSE IF dp # NoFecha THEN [fecha |-> dp, estrategia |-> "dateparser"]
    ELSE [fecha |-> mas_dias(ahora_, 1), estrategia |-> "defecto"]

(* The record returned. *)
registro(txt, fecha, tipo_, prioridad_, materia_) ==
    [ nombre    |-> capitalize(txt),
      fecha     |-> strftime(fecha),
      tipo      |-> tipo_,
      prioridad |-> prioridad_,
      materia   |-> materia_ ]

NoResultado == [ nombre |-> <<>>, fecha |-> <<>>, tipo |-> <<>>, prioridad |-> "", materia |-> "" ]

(* fecha_este_de with the date to confirm itself, left in its own month. *)
fecha_este_de_sin_mes(fecha_actual, ahora_) ==
    _safe_date(fecha_actual.year, fecha_actual.month, fecha_actual.day)

(* _pedir_confirmacion_fecha, before its loop: the two dates it offers. *)
fecha_este_de(fecha_actual, ahora_) == _safe_date(ahora_.year, ahora_.month, fecha_actual.day)

(* fecha_proximo_de without the step to the next month. *)
fecha_proximo_de_sin_avanzar(fecha_actual, ahora_) ==
    _safe_date(ahora_.year, ahora_.month, fecha_actual.day)

fecha_proximo_de(fecha_actual, ahora_) ==
    IF ahora_.month + 1 = 13
    THEN _safe_date(ahora_.year + 1, 1, fecha_actual.day)
    ELSE _safe_date(ahora_.year, ahora_.month + 1, fecha_actual.day)

NoCandidatos == [este |-> NoFecha, proximo |-> NoFecha]

(***************************************************************************)
(* The state machine: one call of procesar_logica_negocio.                  *)
(***************************************************************************)
(* The interpreter before a call. *)
InitInterprete(T, A, inicio) ==
    /\ texto \in T
    /\ ahora \in A
    /\ pc = inicio
    /\ tokens = <<>>
    /\ tokens_clean = <<>>
    /\ materia_final = ""
    /\ tipo = <<>>
    /\ prioridad = ""
    /\ fecha_dt = NoFecha
    /\ estrategia = "None"
    /\ candidatos = NoCandidatos
    /\ resp = <<>>
    /\ resultado = NoResultado

(* The arguments of the functions called on their own, when none of them is. *)
SinArgumentos ==
    /\ texto_limpio = <<>>
    /\ arg_entrada = <<>>
    /\ arg_opciones = <<>>
    /\ arg_umbral = umbral
    /\ encontrado = Ninguno
    /\ arg_palabra = <<>>
    /\ arg_ventana = ventana
    /\ negada = FALSE

(* A NotionAutomation constructed with database db, its client not yet called, *)
(* over a database holding the pages P.                                        *)
InitNotionCon(db, P) ==
    /\ database_id = db
    /\ llamada = NoLlamada
    /\ call_count = [m \in MetodosDelCliente |-> 0]
    /\ call_args = NoSolicitud
    /\ paginas = P
    /\ retorno = ""

(* The server with no POST to handle, its standard input a terminal. *)
SinPedido ==
    /\ data = JsonNone
    /\ stdin = "terminal"
    /\ llamados = {}
    /\ envios = <<>>
    /\ respuesta_notion = NoRespuestaDePost
    /\ respuestas = <<>>

InitCon(T, A, N, P, inicio) ==
    /\ InitInterprete(T, A, inicio)
    /\ arg_nombre_dia \in N
    /\ arg_proxima_semana \in P
    /\ SinArgumentos
    /\ InitNotionCon("", <<>>)
    /\ SinPedido

Init == InitCon(Textos, Ahoras, { <<>> }, { FALSE }, "inicio")

(* procesar_logica_negocio up to its return, or up to the first input() of      *)
(* _pedir_confirmacion_fecha when the date resolved is before today.            *)
Procesar ==
    /\ pc = "inicio"
    /\ \E toks \in { tokenizar(texto) } :
       \E clean \in { remover_stopwords(toks) } :
       \E p \in { fecha_por_patrones(texto, ahora) } :
       \E dp \in (IF p.fecha = NoFecha THEN dateparser_parse(lower(texto), ahora)
                  ELSE { NoFecha }) :
       \E f \in { fecha_con_fallback(p, dp, ahora) } :
            /\ tokens' = toks
            /\ tokens_clean' = clean
            /\ materia_final' = clasificar_materia(clean)
            /\ tipo' = clasificar_tipo(clean)
            /\ prioridad' = resolver_prioridad(toks, clean)
            /\ fecha_dt' = f.fecha
            /\ estrategia' = f.estrategia
            /\ IF FechaAnterior(f.fecha, ahora)
               THEN /\ pc' = "confirmando"
                    /\ candidatos' = [este    |-> fecha_este_de(f.fecha, ahora),
                                      proximo |-> fecha_proximo_de(f.fecha, ahora)]
                    /\ resultado' = NoResultado
               ELSE /\ pc' = "retornado"
                    /\ candidatos' = NoCandidatos
                    /\ resultado' = registro(texto, f.fecha, tipo', prioridad', materia_final')
    /\ UNCHANGED <<texto, ahora, resp, vars_funciones, vars_notion, vars_servidor>>

(* The return of _pedir_confirmacion_fecha with date f, and of the call after it. *)
Retornar(f, origen) ==
    /\ fecha_dt' = f
    /\ estrategia' = origen
    /\ pc' = "retornado"
    /\ resultado' = registro(texto, f, tipo, prioridad, materia_final)

(* The loop goes round: the answer was not accepted, input() is called again. *)
Repetir == UNCHANGED <<fecha_dt, estrategia, pc, resultado>>

(* resp = input("Tu elección: ").strip().lower() *)
Leer(r) ==
    /\ pc = "confirmando"
    /\ resp' = lower(strip(r))
    /\ UNCHANGED <<texto, ahora, tokens, tokens_clean, materia_final, tipo, prioridad,
                   candidatos, vars_funciones, vars_notion, vars_servidor>>

EsRespuestaEste(r) == r \in { <<"e","s","t","e">>, <<"e","s","t","e"," ","m","e","s">> }
EsRespuestaProximo(r) == r \in { <<"p","r","ó","x","i","m","o">>, <<"p","r","o","x","i","m","o">>, <<"s","i","g","u","i","e","n","t","e">>, <<"p","r","ó","x","i","m","o"," ","m","e","s">> }

(* One round of the loop: the answer is "este" or "este mes". *)
ResponderEste ==
    \E r \in Respuestas :
        /\ Leer(r)
        /\ EsRespuestaEste(resp')
        /\ IF candidatos.este # NoFecha /\ ~FechaAnterior(candidatos.este, ahora)
           THEN Retornar(candidatos.este, "resp_este")
           ELSE Repetir

(* One round of the loop: the answer is "próximo", "proximo", "siguiente" or "próximo mes". *)
ResponderProximo ==
    \E r \in Respuestas :
        /\ Leer(r)
        /\ ~EsRespuestaEste(resp')
        /\ EsRespuestaProximo(resp')
        /\ Retornar(candidatos.proximo, "resp_proximo")

(* One round of the loop: any other answer, read as YYYY-MM-DD and, failing that, *)
(* by the fallback parser.                                                        *)
ResponderFecha ==
    \E r \in Respuestas :
        /\ Leer(r)
        /\ ~EsRespuestaEste(resp')
        /\ ~EsRespuestaProximo(resp')
        /\ \E f \in { strptime(resp') } :
             IF f # NoFecha
             THEN Retornar(f, "resp_strptime")
             ELSE \E dp \in dateparser_parse(resp', ahora) :
                      IF dp # NoFecha THEN Retornar(dp, "resp_dateparser") ELSE Repetir

Next == Procesar \/ ResponderEste \/ ResponderProximo \/ ResponderFecha

Spec == Init /\ [][Next]_vars

(***************************************************************************)
(* The priority resolver on its own: part 3 of procesar_logica_negocio      *)
(* applied to a text.                                                       *)
(***************************************************************************)
InitPrioridad == InitCon(TextosPrioridad, { Fecha(2024, 3, 1) }, { <<>> }, { FALSE }, "prioridad")

ResolverPrioridad ==
    /\ pc = "prioridad"
    /\ tokens' = tokenizar(texto)
    /\ tokens_clean' = remover_stopwords(tokens')
    /\ prioridad' = resolver_prioridad(tokens', tokens_clean')
    /\ pc' = "prioridad_resuelta"
    /\ UNCHANGED <<texto, ahora, materia_final, tipo, fecha_dt, estrategia, candidatos, resp,
                   resultado, vars_funciones, vars_notion, vars_servidor>>

NextPrioridad == ResolverPrioridad

SpecPrioridad == InitPrioridad /\ [][NextPrioridad]_vars

(***************************************************************************)
(* The explicit strategy on its own: PATRÓN 1 applied to "<d> de <month>".  *)
(***************************************************************************)
InitExplicita == InitCon(TextosExplicitos, AhorasExplicita, { <<>> }, { FALSE }, "explicita")

ResolverExplicita ==
    /\ pc = "explicita"
    /\ fecha_dt' = fecha_explicita(texto, ahora)
    /\ estrategia' = IF fecha_dt' # NoFecha THEN "explicita" ELSE "None"
    /\ pc' = "explicita_resuelta"
    /\ UNCHANGED <<texto, ahora, tokens, tokens_clean, materia_final, tipo, prioridad,
                   candidatos, resp, resultado, vars_funciones, vars_notion, vars_servidor>>

NextExplicita == ResolverExplicita

SpecExplicita == InitExplicita /\ [][NextExplicita]_vars

(***************************************************************************)
(* _obtener_proximo_dia_semana called on its own.                           *)
(***************************************************************************)
InitDiaSemana == InitCon({ <<>> }, AhorasSemana, NombresDeDia, BOOLEAN, "dia_semana")

ObtenerProximoDiaSemana ==
    /\ pc = "dia_semana"
    /\ fecha_dt' = _obtener_proximo_dia_semana(arg_nombre_dia, ahora, arg_proxima_semana)
    /\ pc' = "dia_semana_resuelto"
    /\ UNCHANGED <<texto, ahora, tokens, tokens_clean, materia_final, tipo, prioridad,
                   estrategia, candidatos, resp, resultado, vars_funciones, vars_notion, vars_servidor>>

NextDiaSemana == ObtenerProximoDiaSemana

SpecDiaSemana == InitDiaSemana /\ [][NextDiaSemana]_vars

(***************************************************************************)
(* buscar_concepto_fuzzy called on its own, as src/test_mejoras.py does.    *)
(***************************************************************************)
(* The words looked for: the typos of test_mejoras.py and words that tie,   *)
(* that match nothing, that need normalising, the empty word.               *)
Entradas == { <<"e","x","a","m","n","e">>, <<"p","r","o","y","e","t","o">>, <<"d","e","b","r","e">>, <<"e","n","t","r","e","e","g","a">>, <<"e","x","a","m","e","n">>, <<" ","E","X","A","M","E","N","!","!"," ">>, <<"P","r","o","y","e","c","t","o">>,
              <<"x","y","z">>, <<"a">>, <<"a","b">>, <<"t","a","l","e","r">>, <<>> }

(* The lists of options: those of test_mejoras.py and of the claim, lists where *)
(* two options tie, where a later option is the better one, where options need  *)
(* normalising, and the empty list.                                             *)
ListasDeOpciones == {
    << <<"e","x","a","m","e","n">>, <<"p","r","o","y","e","c","t","o">> >>,
    << <<"e","x","a","m","e","n">>, <<"p","r","o","y","e","c","t","o">>, <<"d","e","b","e","r">>, <<"e","n","t","r","e","g","a">> >>,
    << <<"a","b">>, <<"b","a">> >>,
    << <<"b","a">>, <<"a","b">> >>,
    << <<"e","x","a","m","n","e">>, <<"e","x","a","m","e","n">>, <<"e","x","a","m","e","n">> >>,
    << <<"E","x","a","m","e","n","!">>, <<"E","X","A","M","E","N">>, <<"p","r","o","y","e","c","t","o",".">> >>,
    << >> }

(* The thresholds: 0, 0.25, ... up to MaxCuartos quarters. *)
MaxCuartos == 4

Umbrales == { <<k, 4>> : k \in 0..MaxCuartos }

ConArgumentosFuzzy(E, O, U) ==
    /\ texto_limpio = <<>>
    /\ arg_entrada \in E
    /\ arg_opciones \in O
    /\ arg_umbral \in U
    /\ encontrado = Ninguno
    /\ arg_palabra = <<>>
    /\ arg_ventana = ventana
    /\ negada = FALSE

InitFuzzy ==
    /\ InitInterprete({ <<>> }, { Fecha(2024, 3, 1) }, "fuzzy")
    /\ arg_nombre_dia = <<>>
    /\ arg_proxima_semana = FALSE
    /\ ConArgumentosFuzzy(Entradas, ListasDeOpciones, Umbrales)
    /\ InitNotionCon("", <<>>)
    /\ SinPedido

BuscarConceptoFuzzy ==
    /\ pc = "fuzzy"
    /\ encontrado' = buscar_concepto_fuzzy(arg_entrada, arg_opciones, arg_umbral)
    /\ pc' = "fuzzy_resuelto"
    /\ UNCHANGED <<texto, ahora, tokens, tokens_clean, materia_final, tipo, prioridad, fecha_dt,
                   estrategia, candidatos, resp, resultado, arg_nombre_dia, arg_proxima_semana,
                   texto_limpio, arg_entrada, arg_opciones, arg_umbral, arg_palabra, arg_ventana,
                   negada, vars_notion, vars_servidor>>

NextFuzzy == BuscarConceptoFuzzy

SpecFuzzy == InitFuzzy /\ [][NextFuzzy]_vars

(***************************************************************************)
(* tokenizar called on its own, on every short string over a few characters.*)
(***************************************************************************)
Alfabeto == { "A", "Ñ", "b", " ", "\n", "-" }

MaxCaracteres == 4

Cadenas == UNION { [1..k -> Alfabeto] : k \in 0..MaxCaracteres }

InitTokenizar ==
    /\ InitInterprete(Cadenas \cup Frases, { Fecha(2024, 3, 1) }, "tokenizar")
    /\ arg_nombre_dia = <<>>
    /\ arg_proxima_semana = FALSE
    /\ SinArgumentos
    /\ InitNotionCon("", <<>>)
    /\ SinPedido

Tokenizar ==
    /\ pc = "tokenizar"
    /\ texto_limpio' = normalizar_texto(texto)
    /\ tokens' = split(texto_limpio')
    /\ pc' = "tokenizado"
    /\ UNCHANGED <<texto, ahora, tokens_clean, materia_final, tipo, prioridad, fecha_dt,
                   estrategia, candidatos, resp, resultado, arg_nombre_dia, arg_proxima_semana,
                   arg_entrada, arg_opciones, arg_umbral, encontrado, arg_palabra, arg_ventana,
                   negada, vars_notion, vars_servidor>>

NextTokenizar == Tokenizar

SpecTokenizar == InitTokenizar /\ [][NextTokenizar]_vars

(***************************************************************************)
(* tiene_negacion called on its own, on the tokens of a text.               *)
(***************************************************************************)
VocabularioNegacion == { <<"n","o">>, <<"u","r","g","e","n","t","e">>, <<"t","a","r","e","a">> }

MaxTokensNegacion == 5

TextosNegacion == FrasesPrioridad \cup TextosDe(VocabularioNegacion, MaxTokensNegacion)

PalabrasNegadas == { <<"u","r","g","e","n","t","e">>, <<"i","m","p","o","r","t","a","n","t","e">> }

MaxVentana == 3

InitNegacion ==
    /\ InitInterprete(TextosNegacion, { Fecha(2024, 3, 1) }, "negacion")
    /\ arg_nombre_dia = <<>>
    /\ arg_proxima_semana = FALSE
    /\ texto_limpio = <<>>
    /\ arg_entrada = <<>>
    /\ arg_opciones = <<>>
    /\ arg_umbral = umbral
    /\ encontrado = Ninguno
    /\ arg_palabra \in PalabrasNegadas
    /\ arg_ventana \in 0..MaxVentana
    /\ negada = FALSE
    /\ InitNotionCon("", <<>>)
    /\ SinPedido

TieneNegacion ==
    /\ pc = "negacion"
    /\ tokens' = tokenizar(texto)
    /\ negada' = tiene_negacion(tokens', arg_palabra, arg_ventana)
    /\ pc' = "negacion_resuelta"
    /\ UNCHANGED <<texto, ahora, tokens_clean, materia_final, tipo, prioridad, fecha_dt,
                   estrategia, candidatos, resp, resultado, arg_nombre_dia, arg_proxima_semana,
                   texto_limpio, arg_entrada, arg_opciones, arg_umbral, encontrado, arg_palabra,
                   arg_ventana, vars_notion, vars_servidor>>

NextNegacion == TieneNegacion

SpecNegacion == InitNegacion /\ [][NextNegacion]_vars

(***************************************************************************)
(* The two classifiers on their own: parts 1 and 2 of                       *)
(* procesar_logica_negocio applied to a text.                               *)
(***************************************************************************)
InitClasificar ==
    /\ InitInterprete(TextosClasificar, { Fecha(2024, 3, 1) }, "clasificar")
    /\ arg_nombre_dia = <<>>
    /\ arg_proxima_semana = FALSE
    /\ SinArgumentos
    /\ InitNotionCon("", <<>>)
    /\ SinPedido

Clasificar ==
    /\ pc = "clasificar"
    /\ tokens' = tokenizar(texto)
    /\ tokens_clean' = remover_stopwords(tokens')
    /\ materia_final' = clasificar_materia(tokens_clean')
    /\ tipo' = clasificar_tipo(tokens_clean')
    /\ pc' = "clasificado"
    /\ UNCHANGED <<texto, ahora, prioridad, fecha_dt, estrategia, candidatos, resp, resultado,
                   vars_funciones, vars_notion, vars_servidor>>

NextClasificar == Clasificar

SpecClasificar == InitClasificar /\ [][NextClasificar]_vars

(***************************************************************************)
(* NotionAutomation: its four operations on the database, each a call to    *)
(* the Notion client.  The client and the database behind it are outside    *)
(* the repository: a request is counted and kept as the client's last one   *)
(* (what the mock of the tests records), and the client then either         *)
(* answers, the database changed as asked, or raises APIResponseError,      *)
(* which every method turns into RuntimeError.                              *)
(***************************************************************************)
(* The arguments agregar_entrada is called with: its defaults, every field  *)
(* given and valid, one field at a time off its list, every field off its   *)
(* list, and a record as the interpreter returns it.                        *)
Entrada(titulo, materia, tipo_, estado, prioridad_, descripcion, fecha_limite) ==
    [ titulo |-> titulo, materia |-> materia, tipo |-> tipo_, estado |-> estado,
      prioridad |-> prioridad_, descripcion |-> descripcion, fecha_limite |-> fecha_limite ]

ArgumentosAgregar == {
    Entrada("Tarea 1", "Otra", "Tarea", "Por hacer", "Media", "", None),
    Entrada("Proyecto Final", "Ingeniería de Software", "Proyecto", "En progreso", "Alta",
            "Descripción del proyecto", Algun("2026-06-30")),
    Entrada("Test", "Materia Inexistente", "Tarea", "Por hacer", "Media", "", None),
    Entrada("Test", "Otra", "Deber", "Por hacer", "Media", "", Algun("")),
    Entrada("Test", "Otra", "Tarea", "Estado Invalido", "Media", "", None),
    Entrada("Test", "Otra", "Tarea", "Por hacer", "alta", "", None),
    Entrada("", "", "", "", "", "", None),
    Entrada("Examen de web mañana", "Aplicaciones Web y Móviles", "Examen", "Por hacer", "Media",
            "", Algun("2024-03-02")) }

(* The values listar_entradas is given for each of its filters. *)
ValoresDeFiltro(valor) == { None, Algun(""), Algun(valor) }

(* The states actualizar_estado is asked for. *)
EstadosPedidos == Rango(ESTADOS) \cup { "Estado Raro", "completado", "" }

(* How many requests the client takes. *)
MaxLlamadas == 2

PuedeLlamar ==
    call_count["pages.create"] + call_count["databases.query"] + call_count["pages.update"]
        < MaxLlamadas

(* The page ids a caller may hold: those of the pages stored and one of no page. *)
PageIds == 1..(Len(paginas) + 1)

(* A request: the method of the client called with keyword arguments kwargs. *)
Solicitar(metodo, kwargs) ==
    /\ call_count' = [call_count EXCEPT ![metodo] = @ + 1]
    /\ call_args' = [metodo |-> metodo, kwargs |-> kwargs]

(* The method raises before any request: the client and the database are as they were. *)
SinSolicitud == UNCHANGED <<call_count, call_args, paginas>>

InitNotion ==
    /\ InitInterprete({ <<>> }, { Fecha(2024, 3, 1) }, "notion")
    /\ arg_nombre_dia = <<>>
    /\ arg_proxima_semana = FALSE
    /\ SinArgumentos
    /\ SinPedido
    /\ \E db \in { "db_test_id", "env_db_id" } :
           InitNotionCon(db, << Pagina(properties_de_entrada("Tarea 1", "Otra", "Tarea", "Por hacer",
                                                             "Media", "", None)) >>)

agregar_entrada(a) ==
    /\ llamada' = [op |-> "agregar_entrada", args |-> a]
    /\ \E properties \in { properties_de_entrada(a.titulo, a.materia, a.tipo, a.estado,
                                                 a.prioridad, a.descripcion, a.fecha_limite) } :
          /\ Solicitar("pages.create",
                       ("parent" :> [database_id |-> database_id]) @@ ("properties" :> properties))
          /\ \/ /\ paginas' = Append(paginas, Pagina(properties))
                /\ retorno' = "page"
             \/ /\ paginas' = paginas
                /\ retorno' = "RuntimeError"

listar_entradas(materia, estado, tipo_) ==
    /\ llamada' = [op |-> "listar_entradas",
                   args |-> [materia |-> materia, estado |-> estado, tipo |-> tipo_]]
    /\ Solicitar("databases.query", query_params_de(database_id, filtros_de(materia, estado, tipo_)))
    /\ paginas' = paginas
    /\ retorno' \in { "results", "RuntimeError" }

(* actualizar_estado without its test of the state asked for. *)
actualizar_estado_sin_validar(page_id, nuevo_estado) ==
    /\ llamada' = [op |-> "actualizar_estado",
                   args |-> [page_id |-> page_id, nuevo_estado |-> nuevo_estado]]
    /\ Solicitar("pages.update",
                 ("page_id" :> page_id)
                 @@ ("properties" :> ("Estado" :> select_de(nuevo_estado))))
    /\ \/ /\ page_id \in DOMAIN paginas
          /\ paginas' = [paginas EXCEPT ![page_id].properties =
                                            ("Estado" :> select_de(nuevo_estado)) @@ @]
          /\ retorno' = "page"
       \/ /\ paginas' = paginas
          /\ retorno' = "RuntimeError"

actualizar_estado(page_id, nuevo_estado) ==
    /\ llamada' = [op |-> "actualizar_estado",
                   args |-> [page_id |-> page_id, nuevo_estado |-> nuevo_estado]]
    /\ IF nuevo_estado \notin Rango(ESTADOS)
       THEN /\ SinSolicitud
            /\ retorno' = "ValueError"
       ELSE /\ Solicitar("pages.update",
                         ("page_id" :> page_id)
                         @@ ("properties" :> ("Estado" :> select_de(nuevo_estado))))
            /\ \/ /\ page_id \in DOMAIN paginas
                  /\ paginas' = [paginas EXCEPT ![page_id].properties =
                                                    ("Estado" :> select_de(nuevo_estado)) @@ @]
                  /\ retorno' = "page"
               \/ /\ paginas' = paginas
                  /\ retorno' = "RuntimeError"

eliminar_entrada(page_id) ==
    /\ llamada' = [op |-> "eliminar_entrada", args |-> [page_id |-> page_id]]
    /\ Solicitar("pages.update", ("page_id" :> page_id) @@ ("archived" :> TRUE))
    /\ \/ /\ page_id \in DOMAIN paginas
          /\ paginas' = [paginas EXCEPT ![page_id].archived = TRUE]
          /\ retorno' = "page"
       \/ /\ paginas' = paginas
          /\ retorno' = "RuntimeError"

(* A call of one of the four methods by the program that holds the object. *)
AgregarEntrada ==
    /\ pc = "notion" /\ PuedeLlamar
    /\ \E a \in ArgumentosAgregar : agregar_entrada(a)
    /\ UNCHANGED <<vars_interprete, vars_funciones, database_id, vars_servidor>>

ListarEntradas ==
    /\ pc = "notion" /\ PuedeLlamar
    /\ \E materia \in ValoresDeFiltro("Proyecto Integrador"),
          estado \in ValoresDeFiltro("En progreso"),
          tipo_ \in ValoresDeFiltro("Examen") : listar_entradas(materia, estado, tipo_)
    /\ UNCHANGED <<vars_interprete, vars_funciones, database_id, vars_servidor>>

ActualizarEstado ==
    /\ pc = "notion" /\ PuedeLlamar
    /\ \E page_id \in PageIds, nuevo_estado \in EstadosPedidos :
          actualizar_estado(page_id, nuevo_estado)
    /\ UNCHANGED <<vars_interprete, vars_funciones, database_id, vars_servidor>>

EliminarEntrada ==
    /\ pc = "notion" /\ PuedeLlamar
    /\ \E page_id \in PageIds : eliminar_entrada(page_id)
    /\ UNCHANGED <<vars_interprete, vars_funciones, database_id, vars_servidor>>

NextNotion == AgregarEntrada \/ ListarEntradas \/ ActualizarEstado \/ EliminarEntrada

SpecNotion == InitNotion /\ [][NextNotion]_vars

(***************************************************************************)
(* The web server: one POST to /agendar handled by api_agendar.             *)
(***************************************************************************)
(* The texts sent as "orden". *)
Ordenes == { <<"E","x","a","m","e","n"," ","d","e"," ","W","e","b"," ","m","a","ñ","a","n","a">>, <<"P","r","o","y","e","c","t","o"," ","d","e"," ","B","I"," ","p","a","r","a"," ","e","l"," ","2","7"," ","d","e"," ","f","e","b","r","e","r","o">>,
             <<"T","a","l","l","e","r"," ","d","e"," ","a","p","l","i","c","a","c","i","o","n","e","s"," ","d","i","s","t","r","i","b","u","i","d","a","s"," ","p","r","ó","x","i","m","o"," ","l","u","n","e","s">>, <<"a","y","e","r">>, <<" "," "," ">> }

(* What get_json gives for the bodies sent: no JSON; the empty object and the  *)
(* empty array; an array; objects with no "orden", with "orden" null, the      *)
(* empty string, a number, and each text of Ordenes.                           *)
Datos ==
    { JsonNone, JsonDict(0, SinOrden), JsonList(0), JsonList(1), JsonDict(1, SinOrden),
      JsonDict(1, OrdenNone), JsonDict(1, OrdenStr(<<>>)), JsonDict(1, OrdenInt(0)),
      JsonDict(2, OrdenInt(5)) }
    \cup { JsonDict(1, OrdenStr(t)) : t \in Ordenes }

(* The standard input of the server: the terminal it was started from, where a *)
(* line comes when someone types one, or closed, where input() raises EOFError. *)
Stdins == { "terminal", "cerrada" }

(* What Notion answers to the post, or the connection failing. *)
ResultadosDePost == { RespuestaDePost(200), RespuestaDePost(400), RespuestaDePost(401),
                      ExcepcionDePost }

InitAgendar ==
    /\ InitInterprete({ <<>> }, Ahoras, "recibido")
    /\ arg_nombre_dia = <<>>
    /\ arg_proxima_semana = FALSE
    /\ SinArgumentos
    /\ InitNotionCon("", <<>>)
    /\ data \in Datos
    /\ stdin \in Stdins
    /\ llamados = {}
    /\ envios = <<>>
    /\ respuesta_notion = NoRespuestaDePost
    /\ respuestas = <<>>

(* return jsonify(...), codigo: the handler returns, the response is sent. *)
Devolver(r) ==
    /\ respuestas' = Append(respuestas, r)
    /\ pc' = "respondido"

(* api_agendar from its start to its first return, or to where it has called *)
(* procesar_logica_negocio with the text of "orden".  data.get of a value    *)
(* that is no object and procesar_logica_negocio of an orden that is no      *)
(* string raise AttributeError, which the except clause answers.             *)
Validar ==
    /\ pc = "recibido"
    /\ IF no_data(data)
       THEN /\ Devolver(Respuesta(400, "error", "No se recibió un JSON válido", NoResultado))
            /\ UNCHANGED <<texto, llamados>>
       ELSE IF data.clase # "dict"
       THEN /\ Devolver(Respuesta(500, "error", "AttributeError", NoResultado))
            /\ UNCHANGED <<texto, llamados>>
       ELSE IF no_orden_usuario(data_get_orden(data))
       THEN /\ Devolver(Respuesta(400, "error", "Falta el campo 'orden'", NoResultado))
            /\ UNCHANGED <<texto, llamados>>
       ELSE IF data_get_orden(data).clase # "str"
       THEN /\ llamados' = llamados \cup { "procesar_logica_negocio" }
            /\ Devolver(Respuesta(500, "error", "AttributeError", NoResultado))
            /\ UNCHANGED texto
       ELSE /\ llamados' = llamados \cup { "procesar_logica_negocio" }
            /\ texto' = data_get_orden(data).str
            /\ pc' = "inicio"
            /\ UNCHANGED respuestas
    /\ UNCHANGED <<ahora, tokens, tokens_clean, materia_final, tipo, prioridad, fecha_dt,
                   estrategia, candidatos, resp, resultado, vars_funciones, vars_notion,
                   data, stdin, envios, respuesta_notion>>

(* input() of the confirmation loop with the standard input closed: EOFError, *)
(* which no clause of the loop handles and the except clause of api_agendar   *)
(* answers.                                                                   *)
FinDeEntrada ==
    /\ pc = "confirmando"
    /\ stdin = "cerrada"
    /\ Devolver(Respuesta(500, "error", "EOFError", NoResultado))
    /\ UNCHANGED <<texto, ahora, tokens, tokens_clean, materia_final, tipo, prioridad, fecha_dt,
                   estrategia, candidatos, resp, resultado, vars_funciones, vars_notion,
                   data, stdin, llamados, envios, respuesta_notion>>

(* api_agendar from the return of procesar_logica_negocio: enviar_a_notion  *)
(* posts the record, and the handler answers by what came of the post.      *)
EnviarANotion ==
    /\ pc = "retornado"
    /\ llamados = { "procesar_logica_negocio" }
    /\ \E r \in ResultadosDePost :
          /\ llamados' = llamados \cup { "enviar_a_notion" }
          /\ envios' = Append(envios, payload_de(resultado))
          /\ respuesta_notion' = r
          /\ IF r.lanza
             THEN Devolver(Respuesta(500, "error", "ConnectionError", NoResultado))
             ELSE IF r.status_code = 200
             THEN Devolver(Respuesta(200, "success", "Tarea guardada", resultado))
             ELSE Devolver(Respuesta(500, "error", "Error en Notion", NoResultado))
    /\ UNCHANGED <<texto, ahora, tokens, tokens_clean, materia_final, tipo, prioridad, fecha_dt,
                   estrategia, candidatos, resp, resultado, vars_funciones, vars_notion,
                   data, stdin>>

(* input() reads a line only when the standard input has one to give. *)
NextAgendar ==
    \/ Validar
    \/ Procesar
    \/ stdin = "terminal" /\ ResponderEste
    \/ stdin = "terminal" /\ ResponderProximo
    \/ stdin = "terminal" /\ ResponderFecha
    \/ FinDeEntrada
    \/ EnviarANotion

(* procesar_logica_negocio, once called, runs to its return or to its prompt: *)
(* Procesar can be taken exactly when pc = "inicio" and leaves it, so weak    *)
(* fairness of Procesar says that pc does not stay at "inicio" for ever.      *)
ProcesarTermina == []<>(pc # "inicio")

(* The handler runs on: each of its own steps is taken when it can be, the    *)
(* closed standard input fails at once and the post to Notion ends, with an   *)
(* answer or with an exception.  Nothing makes a line arrive at the terminal. *)
SpecAgendar ==
    /\ InitAgendar
    /\ [][NextAgendar]_vars
    /\ WF_vars(Validar)
    /\ ProcesarTermina
    /\ WF_vars(FinDeEntrada)
    /\ WF_vars(EnviarANotion)

(***************************************************************************)
(* The properties.                                                          *)
(***************************************************************************)

(* The date of the record returned, read back from its "%Y-%m-%d" text. *)
FechaDelResultado == strptime(resultado.fecha)

(* The call has returned and no date typed at the confirmation prompt was taken: *)
(* either there was no prompt or the answer accepted was "este" or "próximo".    *)
SinFechaEscrita == pc = "retornado" /\ estrategia \notin { "resp_strptime", "resp_dateparser" }

(* C1, as stated: whatever the text and whatever is answered at the prompt, the  *)
(* fecha of the record returned is a valid calendar date that is not earlier     *)
(* than ahora.date().                                                            *)
C1_FechaNuncaAnterior ==
    pc = "retornado" =>
        /\ EsFechaValida(FechaDelResultado)
        /\ ~FechaAnterior(FechaDelResultado, ahora)

(* C1, amended: whatever the text, when no prompt was issued or the answer       *)
(* accepted at the prompt was "este" or "próximo", the fecha of the record       *)
(* returned is a valid calendar date that is not earlier than ahora.date(); a    *)
(* date typed at the prompt is always a valid calendar date too.                 *)
C1_FechaNoAnteriorSinFechaEscrita ==
    pc = "retornado" =>
        /\ EsFechaValida(FechaDelResultado)
        /\ SinFechaEscrita => ~FechaAnterior(FechaDelResultado, ahora)

(* The prompt was issued for a date in the past and answered "este". *)
C1_Testigo ==
    /\ pc = "retornado"
    /\ estrategia = "resp_este"
    /\ candidatos # NoCandidatos
    /\ FechaDelResultado = candidatos.este

(* The canonical subject names of DICCIONARIO_MATERIAS_MEJORADO. *)
NombresDeMateria ==
    { DICCIONARIO_MATERIAS_MEJORADO[k].nombre : k \in DOMAIN DICCIONARIO_MATERIAS_MEJORADO }

TiposCerrados == { <<"E","x","a","m","e","n">>, <<"P","r","o","y","e","c","t","o">>, <<"D","e","b","e","r">>, <<"E","n","t","r","e","g","a">>, <<"T","a","l","l","e","r">> }

(* No clean token is a keyword of a type or is close enough to the name of one. *)
NingunTipoCoincide ==
    \A i \in DOMAIN tokens_clean :
        /\ \A k \in DOMAIN tipos_palabras_clave :
              tokens_clean[i] \notin Rango(tipos_palabras_clave[k].palabras)
        /\ \A j \in DOMAIN tipos_disponibles :
              ~FraccionMayorIgual(ratio(tokens_clean[i], tipos_disponibles[j]), umbral)

(* No clean token is an urgency keyword or a mildness keyword. *)
NingunaPrioridadCoincide ==
    \A i \in DOMAIN tokens_clean :
        tokens_clean[i] \notin Rango(palabras_urgentes) \cup Rango(palabras_bajas)

(* C2: every record returned has materia empty or one of the canonical subject  *)
(* names, tipo one of Examen, Proyecto, Deber, Entrega, Taller (Deber when      *)
(* nothing matches), prioridad one of Alta, Media, Baja (Media when nothing     *)
(* matches), and a fecha that is a date.                                        *)
C2_EnumeracionesCerradas ==
    pc = "retornado" =>
        /\ resultado.materia \in { "" } \cup NombresDeMateria
        /\ resultado.tipo \in TiposCerrados
        /\ resultado.prioridad \in { "Alta", "Media", "Baja" }
        /\ FechaDelResultado # NoFecha
        /\ NingunTipoCoincide => resultado.tipo = Deber
        /\ NingunaPrioridadCoincide => resultado.prioridad = "Media"

(* A record with a subject, a type other than the default and a priority other *)
(* than the default.                                                           *)
C2_Testigo ==
    /\ pc = "retornado"
    /\ resultado.materia = "Inglés B1+"
    /\ resultado.tipo = <<"E","x","a","m","e","n">>
    /\ resultado.prioridad = "Alta"

(* C3: for "No es urgente pero debo entregar el deber de realidad nacional"   *)
(* the record returned has prioridad "Baja" and materia "Realidad Nacional". *)
C3_NoEsUrgenteEsBaja ==
    /\ pc = "retornado"
    /\ texto = <<"N","o"," ","e","s"," ","u","r","g","e","n","t","e"," ","p","e","r","o"," ","d","e","b","o"," ","e","n","t","r","e","g","a","r"," ","e","l"," ","d","e","b","e","r"," ","d","e"," ","r","e","a","l","i","d","a","d"," ","n","a","c","i","o","n","a","l">>
    => /\ resultado.prioridad = "Baja"
       /\ resultado.materia = "Realidad Nacional"

(* The position of the first occurrence of palabra among the tokens has a      *)
(* negation word from three tokens before it to two tokens after it.           *)
NegadaEnVentana(palabra) ==
    \E i \in DOMAIN tokens :
        /\ tokens[i] = palabra
        /\ \A h \in 1..(i - 1) : tokens[h] # palabra
        /\ \E j \in DOMAIN tokens :
              /\ tokens[j] \in Rango(negaciones)
              /\ i - 3 <= j
              /\ j <= i + 2

UrgenciaPresente == \E p \in Rango(palabras_urgentes) : p \in Rango(tokens)

SuavidadPresente == \E p \in Rango(palabras_bajas) : p \in Rango(tokens)

(* Every urgency keyword among the tokens has a negation word in its window. *)
UrgenciaNegada ==
    /\ UrgenciaPresente
    /\ \A p \in Rango(palabras_urgentes) : p \in Rango(tokens) => NegadaEnVentana(p)

(* "urgente" or "importante" has a negation word in its window: the negations *)
(* the resolver tests.                                                        *)
UrgenteOImportanteNegada == NegadaEnVentana(<<"u","r","g","e","n","t","e">>) \/ NegadaEnVentana(<<"i","m","p","o","r","t","a","n","t","e">>)

DiasAdelante == toordinal(fecha_dt) - toordinal(ahora)

(* C6: for a weekday name, _obtener_proximo_dia_semana returns the reference   *)
(* date plus d whole days, on the weekday named; with proxima_semana d is 7 to *)
(* 13, and 7 exactly when the reference day is that weekday; without it d is 0 *)
(* to 6, and 0 exactly when the reference day is that weekday.                 *)
C6_ProximoDiaDeLaSemana ==
    pc = "dia_semana_resuelto" /\ arg_nombre_dia \in Rango(dias_es) =>
        /\ EsFechaValida(fecha_dt)
        /\ weekday(fecha_dt) = dia_objetivo_de(arg_nombre_dia)
        /\ IF arg_proxima_semana
           THEN /\ DiasAdelante \in 7..13
                /\ DiasAdelante = 7 <=> weekday(ahora) = dia_objetivo_de(arg_nombre_dia)
           ELSE /\ DiasAdelante \in 0..6
                /\ DiasAdelante = 0 <=> weekday(ahora) = dia_objetivo_de(arg_nombre_dia)

(* "próximo lunes" asked on a Monday: seven days later. *)
C6_Testigo ==
    /\ pc = "dia_semana_resuelto"
    /\ arg_nombre_dia = <<"l","u","n","e","s">>
    /\ arg_proxima_semana
    /\ weekday(ahora) = 0
    /\ DiasAdelante = 7

(* The year of "<d> de <month m>": this year, or the next when the month is    *)
(* before this month or it is this month and d is before today's day.          *)
AnioInferido(d, m) ==
    IF m < ahora.month \/ (m = ahora.month /\ d < ahora.day) THEN ahora.year + 1 ELSE ahora.year

(* The explicit strategy gave, for day d of month m, the day min(d, last day   *)
(* of the month) of the year inferred, a date not before the reference date.   *)
ExplicitaResuelta(d, m) ==
    /\ fecha_dt = Fecha(AnioInferido(d, m), m, Minimo({ d, DiasDelMes(AnioInferido(d, m), m) }))
    /\ ~FechaAnterior(fecha_dt, ahora)

(* C7, as stated: for every text "<d> de <month>" with d >= 1 the explicit     *)
(* strategy resolves to the inferred year, that month and day min(d, last day  *)
(* of the month), never before the reference date.                             *)
C7_ExplicitaTodoDia ==
    pc = "explicita_resuelta" =>
        \A d \in DiasTexto, m \in 1..12 :
            texto = TextoExplicito(d, m) /\ d >= 1 => ExplicitaResuelta(d, m)

(* C7, amended: the same for every d written with one or two digits, 1 to 99. *)
C7_ExplicitaDiaDeDosDigitos ==
    pc = "explicita_resuelta" =>
        \A d \in DiasTexto, m \in 1..12 :
            texto = TextoExplicito(d, m) /\ d >= 1 /\ d <= 99 => ExplicitaResuelta(d, m)

(* "31 de febrero" on the first of March: the last day of next year's February. *)
C7_Testigo ==
    /\ pc = "explicita_resuelta"
    /\ texto = <<"3","1"," ","d","e"," ","f","e","b","r","e","r","o">>
    /\ ahora = Fecha(2024, 3, 1)
    /\ fecha_dt = Fecha(2025, 2, 28)

(* The days a relative expression adds, from the groups of its match: mañana 1, *)
(* hoy 0, pasado mañana 2, N semanas 7 * N, N días N; -1 for any other.         *)
DesplazamientoRelativo(g) ==
    IF g = << <<"m","a","ñ","a","n","a">> >> THEN 1
    ELSE IF g = << <<"h","o","y">> >> THEN 0
    ELSE IF Len(g) = 1 /\ EmpiezaEn(g[1], 1, <<"p","a","s","a","d","o">>) THEN 2
    ELSE IF Len(g) = 2 /\ g[2] \in { <<"s","e","m","a","n","a">>, <<"s","e","m","a","n","a","s">> } THEN 7 * int(g[1])
    ELSE IF Len(g) = 2 /\ g[2] \in { <<"d","í","a">>, <<"d","í","a","s">> } THEN int(g[1])
    ELSE 0 - 1

(* C8: a text with a relative expression and no explicit day and month gives   *)
(* the reference date plus the days of the expression, by the resolver itself: *)
(* stated of the records whose date the program resolved, with no part played  *)
(* by the fallback parser or by the prompt.                                    *)
C8_RelativaResuelta ==
    pc = "retornado" /\ estrategia \in { "explicita", "proximo_dia", "este_dia" } =>
        \A e \in { extraer_fechas_mejorado(texto) } :
            e.tipo = "relativa" /\ DesplazamientoRelativo(e.grupos) >= 0
                => FechaDelResultado = mas_dias(ahora, DesplazamientoRelativo(e.grupos))

(* C9: the nombre of the record returned is the text with its first character *)
(* upper-cased and every other character as it was.                           *)
C9_NombreSoloPrimeraMayuscula ==
    pc = "retornado" =>
        resultado.nombre = [i \in DOMAIN texto |-> IF i = 1 THEN upper_c(texto[i]) ELSE texto[i]]

TextoEnBlanco == \A i \in DOMAIN texto : EsEspacio(texto[i])

(* C10: for an empty or whitespace-only text no prompt is issued, and the      *)
(* record returned has the defaults: no token, materia "", tipo "Deber",       *)
(* prioridad "Media" and fecha the reference date plus one day.                *)
C10_TextoEnBlancoDaDefectos ==
    TextoEnBlanco =>
        /\ pc # "confirmando"
        /\ pc = "retornado" =>
              /\ tokens = <<>>
              /\ resultado.materia = ""
              /\ resultado.tipo = <<"D","e","b","e","r">>
              /\ resultado.prioridad = "Media"
              /\ FechaDelResultado = mas_dias(ahora, 1)
              /\ candidatos = NoCandidatos

(* A text of nothing but whitespace, returned with tomorrow's date. *)
C10_Testigo ==
    /\ pc = "retornado"
    /\ texto = <<" ", "\t", "\n">>
    /\ resultado.fecha = strftime(mas_dias(ahora, 1))

(* The similarity of option i to the input, both normalised. *)
Similitud(i) == ratio(normalizar_texto(arg_entrada), normalizar_texto(arg_opciones[i]))

(* The options whose similarity reaches the threshold. *)
AlcanzanUmbral == { i \in DOMAIN arg_opciones : FraccionMayorIgual(Similitud(i), arg_umbral) }

(* C11: buscar_concepto_fuzzy returns None exactly when no option reaches the  *)
(* threshold; otherwise it returns an option that reaches it, that no option   *)
(* exceeds in similarity, and that every option before it falls short of; and  *)
(* "examne" against ["examen", "proyecto"] at 0.75 gives "examen".             *)
C11_MejorOpcionPrimeraEnEmpate ==
    pc = "fuzzy_resuelto" =>
        /\ encontrado = Ninguno <=> AlcanzanUmbral = {}
        /\ AlcanzanUmbral # {} =>
              \E i \in AlcanzanUmbral :
                  /\ encontrado = arg_opciones[i]
                  /\ \A j \in DOMAIN arg_opciones : FraccionMayorIgual(Similitud(i), Similitud(j))
                  /\ \A j \in 1..(i - 1) : FraccionMayor(Similitud(i), Similitud(j))
        /\ (/\ arg_entrada = <<"e","x","a","m","n","e">>
            /\ arg_opciones = << <<"e","x","a","m","e","n">>, <<"p","r","o","y","e","c","t","o">> >>
            /\ arg_umbral = <<3, 4>>) => encontrado = <<"e","x","a","m","e","n">>

(* "a" against ["ab", "ba"] at 0.5: both options have similarity 2/3 and the *)
(* first is returned.                                                       *)
C11_Testigo ==
    /\ pc = "fuzzy_resuelto"
    /\ arg_entrada = <<"a">>
    /\ arg_opciones = << <<"a","b">>, <<"b","a">> >>
    /\ arg_umbral = <<2, 4>>
    /\ Similitud(1) = Similitud(2)
    /\ encontrado = <<"a","b">>

(* C12: normalising a normalised text changes nothing, and the tokens of the *)
(* normalised text are the tokens of the text.                               *)
C12_NormalizarEsIdempotente ==
    pc = "tokenizado" =>
        /\ normalizar_texto(texto_limpio) = texto_limpio
        /\ tokenizar(texto_limpio) = tokens
        /\ tokenizar(texto) = tokens

(* "A -" has a space before its punctuation: normalised it is "a", with no *)
(* space left at its end.                                                  *)
C12_Testigo ==
    /\ pc = "tokenizado"
    /\ texto = <<"A", " ", "-">>
    /\ texto_limpio = <<"a">>
    /\ tokens = << <<"a">> >>

(* C16: tiene_negacion is true exactly when the word is among the tokens and *)
(* a negation word stands at most ventana positions before or after the      *)
(* first occurrence of the word.                                             *)
C16_NegacionAIgualDistancia ==
    pc = "negacion_resuelta" =>
        (negada <=>
            /\ arg_palabra \in Rango(tokens)
            /\ \E j \in DOMAIN tokens :
                  /\ tokens[j] \in Rango(negaciones)
                  /\ j - Minimo({ i \in DOMAIN tokens : tokens[i] = arg_palabra }) <= arg_ventana
                  /\ Minimo({ i \in DOMAIN tokens : tokens[i] = arg_palabra }) - j <= arg_ventana)

(* The name of the select property p in the client's last request. *)
NombreEnviado(p) == call_args'.kwargs["properties"][p].select.name

(* v as it is when on the list, the default when it is not. *)
EnListaODefecto(v, lista, defecto) ==
    IF \E i \in DOMAIN lista : lista[i] = v THEN v ELSE defecto

(* C13: every call of agregar_entrada makes one request, pages.create, for    *)
(* the database the object was built with, and in it Materia, Tipo, Estado    *)
(* and Prioridad are each on their list: the value given when that is on the  *)
(* list, the default ("Otra", "Tarea", "Por hacer", "Media") when it is not.  *)
C13_UnaCreacionConValoresDeLista ==
    [][llamada'.op = "agregar_entrada" =>
          /\ call_count' = [call_count EXCEPT !["pages.create"] = @ + 1]
          /\ call_args'.metodo = "pages.create"
          /\ call_args'.kwargs["parent"] = [database_id |-> database_id]
          /\ NombreEnviado("Materia") \in Rango(MATERIAS_6TO)
          /\ NombreEnviado("Tipo") \in Rango(TIPOS_ENTRADA)
          /\ NombreEnviado("Estado") \in Rango(ESTADOS)
          /\ NombreEnviado("Prioridad") \in Rango(PRIORIDADES)
          /\ NombreEnviado("Materia") = EnListaODefecto(llamada'.args.materia, MATERIAS_6TO, "Otra")
          /\ NombreEnviado("Tipo") = EnListaODefecto(llamada'.args.tipo, TIPOS_ENTRADA, "Tarea")
          /\ NombreEnviado("Estado") = EnListaODefecto(llamada'.args.estado, ESTADOS, "Por hacer")
          /\ NombreEnviado("Prioridad") = EnListaODefecto(llamada'.args.prioridad, PRIORIDADES, "Media")
      ]_vars

(* A subject that is not on the list, sent as "Otra" in the first request made. *)
C13_Testigo ==
    /\ llamada.op = "agregar_entrada"
    /\ llamada.args.materia = "Materia Inexistente"
    /\ call_count = [m \in MetodosDelCliente |-> IF m = "pages.create" THEN 1 ELSE 0]
    /\ call_args.metodo = "pages.create"
    /\ call_args.kwargs["properties"]["Materia"] = [select |-> [name |-> "Otra"]]
    /\ Len(paginas) = 2

(* C14: actualizar_estado asked for a state that is not in ESTADOS raises      *)
(* ValueError, makes no request and leaves the pages stored as they were;      *)
(* asked for a state in ESTADOS it makes one request, pages.update, for the    *)
(* page named, with Estado, set to that state, for its only property.          *)
C14_EstadoInvalidoSinSolicitud ==
    [][llamada'.op = "actualizar_estado" =>
          IF \E i \in DOMAIN ESTADOS : ESTADOS[i] = llamada'.args.nuevo_estado
          THEN /\ call_count' = [call_count EXCEPT !["pages.update"] = @ + 1]
               /\ call_args'.metodo = "pages.update"
               /\ DOMAIN call_args'.kwargs = { "page_id", "properties" }
               /\ call_args'.kwargs["page_id"] = llamada'.args.page_id
               /\ DOMAIN call_args'.kwargs["properties"] = { "Estado" }
               /\ NombreEnviado("Estado") = llamada'.args.nuevo_estado
               /\ retorno' # "ValueError"
          ELSE /\ retorno' = "ValueError"
               /\ call_count' = call_count
               /\ call_args' = call_args
               /\ paginas' = paginas
      ]_vars

(* "Estado Raro" asked for after a page was created: ValueError, the client's *)
(* update method never called.                                                *)
C14_Testigo ==
    /\ llamada.op = "actualizar_estado"
    /\ llamada.args.nuevo_estado = "Estado Raro"
    /\ retorno = "ValueError"
    /\ call_count["pages.update"] = 0
    /\ call_count["pages.create"] = 1
    /\ call_args.metodo = "pages.create"

(* The filters given to listar_entradas that are not empty, in the order *)
(* materia, estado, tipo, each with the property it is a filter on.      *)
FiltrosDados(args) ==
    SelectSeq(<< <<"Materia", args.materia>>, <<"Estado", args.estado>>, <<"Tipo", args.tipo>> >>,
              LAMBDA f : f[2] # <<>> /\ f[2] # <<"">>)

IgualdadDe(f) == [property |-> f[1], select |-> [equals |-> f[2][1]]]

(* C15: the query of listar_entradas has no filter key when no filter is      *)
(* given, the one equality condition for its filter when one is given, and an *)
(* "and" of the equality conditions, one for each filter given, in the order  *)
(* materia, estado, tipo, when two or three are.                              *)
C15_FiltroDeLosFiltrosDados ==
    [][llamada'.op = "listar_entradas" =>
          /\ call_count' = [call_count EXCEPT !["databases.query"] = @ + 1]
          /\ call_args'.metodo = "databases.query"
          /\ call_args'.kwargs["database_id"] = database_id
          /\ \E dados \in { FiltrosDados(llamada'.args) } :
                IF dados = <<>>
                THEN DOMAIN call_args'.kwargs = { "database_id" }
                ELSE /\ DOMAIN call_args'.kwargs = { "database_id", "filter" }
                     /\ IF Len(dados) = 1
                        THEN call_args'.kwargs["filter"] = IgualdadDe(dados[1])
                        ELSE call_args'.kwargs["filter"] =
                                 [and |-> [i \in DOMAIN dados |-> IgualdadDe(dados[i])]]
      ]_vars

(* A subject, a state and an empty type given: an "and" of two conditions. *)
C15_Testigo ==
    /\ llamada.op = "listar_entradas"
    /\ llamada.args = [materia |-> <<"Proyecto Integrador">>, estado |-> <<"En progreso">>,
                       tipo |-> <<"">>]
    /\ call_args.metodo = "databases.query"
    /\ DOMAIN call_args.kwargs["filter"] = { "and" }
    /\ Len(call_args.kwargs["filter"].and) = 2
    /\ call_args.kwargs["filter"].and[2].property = "Estado"

(* The positions of the tokens that are no stopwords. *)
NoSonStopwords == { i \in DOMAIN tokens : tokens[i] \notin STOPWORDS_ES }

(* tokens_clean is tokens without its stopwords, the others in their order. *)
SoloSinStopwords ==
    /\ Len(tokens_clean) = Cardinality(NoSonStopwords)
    /\ \A i \in NoSonStopwords :
          tokens_clean[Cardinality({ j \in NoSonStopwords : j <= i })] = tokens[i]

(* How many times word n stands in the sequence s. *)
Veces(n, s) == Cardinality({ i \in DOMAIN s : s[i] = n })

(* C17, as stated: no negation word is a stopword, remover_stopwords keeps   *)
(* every negation word of the tokens and leaves the other tokens it keeps in *)
(* their order.                                                              *)
C17_NingunaNegacionEsStopword ==
    pc = "prioridad_resuelta" =>
        /\ \A n \in Rango(negaciones) :
              n \notin STOPWORDS_ES /\ Veces(n, tokens_clean) = Veces(n, tokens)
        /\ SoloSinStopwords

(* C17, amended: of the negation words "no" is a stopword and the other four  *)
(* are not; remover_stopwords removes every "no" with the other stopwords and *)
(* keeps every nunca, jamás, nada and ni, the tokens kept in their order.     *)
C17_SoloNoEsStopword ==
    pc = "prioridad_resuelta" =>
        /\ \A n \in Rango(negaciones) :
              IF n = <<"n","o">>
              THEN n \in STOPWORDS_ES /\ Veces(n, tokens_clean) = 0
              ELSE n \notin STOPWORDS_ES /\ Veces(n, tokens_clean) = Veces(n, tokens)
        /\ SoloSinStopwords

(* "No nunca es urgente, ni fácil": "no" and "es" go, "nunca" and "ni" stay. *)
C17_Testigo ==
    /\ pc = "prioridad_resuelta"
    /\ tokens = << <<"n","o">>, <<"n","u","n","c","a">>, <<"e","s">>, <<"u","r","g","e","n","t","e">>, <<"n","i">>, <<"f","á","c","i","l">> >>
    /\ tokens_clean = << <<"n","u","n","c","a">>, <<"u","r","g","e","n","t","e">>, <<"n","i">>, <<"f","á","c","i","l">> >>

(* The entries of the dictionary with a variant among the clean tokens. *)
EntradasConVariante ==
    { k \in DOMAIN DICCIONARIO_MATERIAS_MEJORADO :
        \E i \in DOMAIN tokens_clean :
            \E j \in DOMAIN DICCIONARIO_MATERIAS_MEJORADO[k].variantes :
                DICCIONARIO_MATERIAS_MEJORADO[k].variantes[j] = tokens_clean[i] }

(* The positions of the clean tokens that fuzzy-match a variant. *)
TokensConVarianteFuzzy == { i \in DOMAIN tokens_clean : variante_fuzzy[tokens_clean[i]] # Ninguno }

(* C18: with a clean token that is a variant, the subject is the nombre of the *)
(* first entry of the dictionary, in declared order, that has a variant among  *)
(* the tokens, wherever in the text the tokens stand; with none, the subject   *)
(* is that of the variant matched by the first token, in text order, that      *)
(* fuzzy-matches one, and "" when no token does.                               *)
C18_MateriaPorOrdenDelDiccionario ==
    pc = "clasificado" =>
        IF EntradasConVariante # {}
        THEN materia_final = DICCIONARIO_MATERIAS_MEJORADO[Minimo(EntradasConVariante)].nombre
        ELSE IF TokensConVarianteFuzzy # {}
        THEN \E k \in DOMAIN DICCIONARIO_MATERIAS_MEJORADO :
                /\ variante_fuzzy[tokens_clean[Minimo(TokensConVarianteFuzzy)]]
                       \in Rango(DICCIONARIO_MATERIAS_MEJORADO[k].variantes)
                /\ materia_final = DICCIONARIO_MATERIAS_MEJORADO[k].nombre
        ELSE materia_final = ""

(* "inglés Web": the variant of the last entry stands first in the text, and *)
(* the subject is that of the first entry.                                   *)
C18_Testigo ==
    /\ pc = "clasificado"
    /\ tokens_clean = << <<"i","n","g","l","é","s">>, <<"w","e","b">> >>
    /\ materia_final = "Aplicaciones Web y Móviles"

(* The entries of the keyword mapping with a keyword among the clean tokens. *)
TiposConPalabraClave ==
    { k \in DOMAIN tipos_palabras_clave :
        \E i \in DOMAIN tokens_clean :
            \E j \in DOMAIN tipos_palabras_clave[k].palabras :
                tipos_palabras_clave[k].palabras[j] = tokens_clean[i] }

(* The positions of the clean tokens that fuzzy-match a type name. *)
TokensConTipoFuzzy == { i \in DOMAIN tokens_clean : tipo_disponible_fuzzy[tokens_clean[i]] # Ninguno }

(* C19: the type is that of the first entry of the keyword mapping, in its    *)
(* order, with a keyword among the clean tokens; when there is none, the type *)
(* name matched by the first token, in text order, that fuzzy-matches one;    *)
(* and "Deber" when no token does.  The name is returned capitalised.         *)
C19_TipoPorOrdenDelMapa ==
    pc = "clasificado" =>
        IF TiposConPalabraClave # {}
        THEN tipo = capitalize(tipos_palabras_clave[Minimo(TiposConPalabraClave)].tipo_nombre)
        ELSE IF TokensConTipoFuzzy # {}
        THEN tipo = capitalize(tipo_disponible_fuzzy[tokens_clean[Minimo(TokensConTipoFuzzy)]])
        ELSE tipo = <<"D","e","b","e","r">>

(* "proyeto examne": no keyword, two tokens near a type name, the first decides. *)
C19_Testigo ==
    /\ pc = "clasificado"
    /\ tokens_clean = << <<"p","r","o","y","e","t","o">>, <<"e","x","a","m","n","e">> >>
    /\ TiposConPalabraClave = {}
    /\ tipo = <<"P","r","o","y","e","c","t","o">>

(* The day of fecha_dt in month m of year y, or the last day of that month. *)
MismoDiaEn(y, m) ==
    Fecha(y, m, IF fecha_dt.day <= DiasDelMes(y, m) THEN fecha_dt.day ELSE DiasDelMes(y, m))

(* The round of the loop ended the call with date f; it left the call at the prompt. *)
AceptaFecha(f) == pc' = "retornado" /\ resultado'.fecha = strftime(f)
PreguntaDeNuevo == pc' = "confirmando" /\ resultado' = NoResultado /\ fecha_dt' = fecha_dt

(* C20: at the prompt, "este" gives the day of the date to confirm in this     *)
(* month when that is not before the reference date, and the prompt again when *)
(* it is; "próximo" gives that day, or the last day, of the month after this   *)
(* one, January of the next year after December; an answer that is neither     *)
(* and that neither strptime nor the fallback parser reads gives no date and   *)
(* the prompt again; and the call returns only with one of these dates.        *)
C20_ConfirmacionDeFecha ==
    [][pc = "confirmando" =>
          /\ resp' \in { <<"e","s","t","e">>, <<"e","s","t","e"," ","m","e","s">> } =>
                IF FechaAnterior(MismoDiaEn(ahora.year, ahora.month), ahora)
                THEN PreguntaDeNuevo
                ELSE AceptaFecha(MismoDiaEn(ahora.year, ahora.month))
          /\ resp' \in { <<"p","r","ó","x","i","m","o">>, <<"p","r","o","x","i","m","o">>, <<"s","i","g","u","i","e","n","t","e">>, <<"p","r","ó","x","i","m","o"," ","m","e","s">> } =>
                AceptaFecha(IF ahora.month = 12 THEN MismoDiaEn(ahora.year + 1, 1)
                            ELSE MismoDiaEn(ahora.year, ahora.month + 1))
          /\ resp' \notin { <<"e","s","t","e">>, <<"e","s","t","e"," ","m","e","s">>, <<"p","r","ó","x","i","m","o">>, <<"p","r","o","x","i","m","o">>, <<"s","i","g","u","i","e","n","t","e">>, <<"p","r","ó","x","i","m","o"," ","m","e","s">> } =>
                \/ strptime(resp') # NoFecha /\ AceptaFecha(strptime(resp'))
                \/ /\ strptime(resp') = NoFecha
                   /\ \E i \in DOMAIN resp' : ~EsEspacio(resp'[i])
                   /\ estrategia' = "resp_dateparser"
                   /\ AceptaFecha(fecha_dt')
                \/ strptime(resp') = NoFecha /\ PreguntaDeNuevo
          /\ pc' \in { "confirmando", "retornado" }
      ]_vars

(* "próximo" answered on the last day of a year, for a text read as the day *)
(* before: the 30th of next year's January.                                 *)
C20_Testigo ==
    /\ pc = "retornado"
    /\ ahora = Fecha(2024, 12, 31)
    /\ resp = <<"p","r","ó","x","i","m","o">>
    /\ candidatos.este = Fecha(2024, 12, 30)
    /\ resultado.fecha = <<"2","0","2","5","-","0","1","-","3","0">>

(* The qualifier kw stands in s at the start of a word and is followed, after *)
(* whitespace, by the weekday name dia.                                       *)
CalificadorSeguidoDe(s, kw, dia) ==
    \E i \in DOMAIN s :
        /\ i = 1 \/ ~EsPalabra(s[i - 1])
        /\ EmpiezaEn(s, i, kw)
        /\ \E j \in (i + Len(kw) + 1)..Len(s) :
              /\ \A k \in (i + Len(kw))..(j - 1) : EsEspacio(s[k])
              /\ EmpiezaEn(s, j, dia)

(* The weekday strategy resolved the date to that of a weekday name that follows *)
(* one of the qualifiers kws in the text.                                        *)
ResuelveElDiaCalificado(kws, proxima_semana) ==
    \E kw \in kws : \E d \in DOMAIN dias_es :
        /\ CalificadorSeguidoDe(lower(texto), kw, dias_es[d])
        /\ fecha_dt = _obtener_proximo_dia_semana(dias_es[d], ahora, proxima_semana)

(* C22: the qualified-weekday strategy resolves the date only of a text where   *)
(* próximo, proximo, siguiente or este is directly followed by a weekday name,  *)
(* and to the weekday that follows the qualifier; a qualifier and a weekday     *)
(* name that only both occur in the text, or a qualifier inside another word,   *)
(* do not make it resolve.                                                      *)
C22_CalificadorSeguidoDelDia ==
    pc = "retornado" =>
        /\ estrategia = "proximo_dia" =>
              ResuelveElDiaCalificado({ <<"p","r","ó","x","i","m","o">>, <<"p","r","o","x","i","m","o">>, <<"s","i","g","u","i","e","n","t","e">> }, TRUE)
        /\ estrategia = "este_dia" => ResuelveElDiaCalificado({ <<"e","s","t","e">> }, FALSE)

(* The body lacks "orden": it is no valid JSON, or an empty value, or an object *)
(* with no "orden" or with an empty one.                                       *)
CuerpoSinOrden ==
    \/ data.clase = "None"
    \/ data.largo = 0
    \/ data.clase = "dict" /\ data.orden.clase \in { "ausente", "None" }
    \/ data.clase = "dict" /\ data.orden.clase = "str" /\ data.orden.str = <<>>
    \/ data.clase = "dict" /\ data.orden.clase = "int" /\ data.orden.int = 0

NotionDio200 == "enviar_a_notion" \in llamados /\ respuesta_notion = RespuestaDePost(200)

(* The response r is the one for the case of the POST. *)
RespuestaDelCaso(r) ==
    /\ r.status = "success" <=> r.codigo = 200
    /\ IF CuerpoSinOrden THEN r.codigo = 400 /\ llamados = {} /\ envios = <<>>
       ELSE IF NotionDio200 THEN r.codigo = 200
       ELSE r.codigo = 500

(* At most one response, and the one for the case. *)
UnaRespuestaDelCaso ==
    /\ Len(respuestas) <= 1
    /\ respuestas # <<>> => RespuestaDelCaso(respuestas[1])

(* The POST gets its response in the end. *)
RespuestaAlFin == <>(Len(respuestas) = 1)

(* C21: every POST to /agendar gets exactly one response in the end, whatever  *)
(* the text of the order: 400 for a body that is no valid JSON or lacks        *)
(* "orden", the interpreter and Notion not called; 200 with status "success"   *)
(* only when the call to Notion returned 200; 500 in every other case, an      *)
(* exception raised while processing among them (that of a body that is valid  *)
(* JSON and no object is taken for one of these).                              *)
C21_UnaRespuestaParaCadaPost ==
    /\ []UnaRespuestaDelCaso
    /\ RespuestaAlFin
=============================================================================
